---- MODULE Spec2Model ----
(***************************************************************************)
(* MarketScan: the OCR catalog classifier (VisionService), the text        *)
(* aggregator (GeminiService), the idempotent persister                    *)
(* (SavePromotionService) and the notifier (EmailService).                 *)
(*                                                                         *)
(* Texts are sequences of one-character strings.  Accented letters are     *)
(* written as one element with an ASCII name ("c_cedilla" is U+00E7).      *)
(* Indices into a text are 0-based, as RegExp.lastIndex is; the character  *)
(* at index i of text t is t[i + 1].                                       *)
(***************************************************************************)
EXTENDS Integers, Sequences, FiniteSets, TLC

VARIABLES
    lastIndex,      \* VisionService.PRICE_PATTERNS[k].lastIndex, k = 1..4
    combinedText,   \* processPost: result.combinedText of the post in progress
    processedImages, \* processPost: result.processedImages of the post in progress
    lastCall,       \* the latest isPromotionCatalog call: its text, its result,
                    \* whether processPost made it, and whether a pattern's
                    \* lastIndex was not 0 at its entry
    postResult,     \* the PostOCRResult processPost returned last
    visionResults,  \* GeminiService.execute: the PostOCRResult list it is given
    marketBlocks,   \* GeminiService.execute: per market processed, the combined
                    \* text put in its prompt
    geminiDone,     \* GeminiService.execute has run
    store,          \* the relational store: the market, promotion, post and
                    \* product tables, each in insertion order
    pc,             \* where the persister is: "idle", "loop" (saveGeminiResults,
                    \* between candidates) or "posts" (savePromotion's post loop)
    promotion,      \* savePromotion: the id of the promotion found or created
    firstSeen,      \* history: per post code, the promotion and the number of
                    \* products of the first candidate post handed to savePost
                    \* with that code, and whether another one followed
    input,          \* the merged candidate list of the pipeline run
    runs,           \* how many times saveGeminiResults ran on input
    result,         \* the DatabaseSaveResult of the latest run
    storeBefore,    \* history: the store when the latest run started
    today,          \* the current day
    reports,        \* the reports sent so far: the promotions each one lists
    emailResult,    \* the EmailSendResult of the latest sendActivePromotions
    heap,           \* the GeminiPromotion objects the extractor created, in the
                    \* order of its list; a reference is a position in heap
    merged,         \* the array groupPromotionsByPeriod returned last, as
                    \* references
    mergeLog,       \* history: per call of groupPromotionsByPeriod, what it was
                    \* given and the values of its argument (at the call) and
                    \* of its result (at the return)
    extractPc,      \* where GeminiService.execute is: "idle", "markets" (in its
                    \* loop over the markets) or "done"
    pending,        \* execute: the entries of postsByMarket still to process
    calls,          \* history: the market of each generateContent call, in order
    extractResult,  \* execute: its GeminiProcessingResult
    marketLog,      \* history: per market processed, the response it got,
                    \* whether processMarketPosts threw, and the candidates it
                    \* returned
    procs,          \* per persister run taken one store call at a time: where
                    \* it is (pc), the candidate k, post i and product j it is
                    \* at, and the ids of the promotion and post it holds
    trace,          \* history: the store calls made, each with its place in
                    \* the list and whether it succeeded, and the crashes
    visionPc,       \* where VisionService.execute is: "idle", "posts" (in its
                    \* loop, between posts), "images" (in processPost),
                    \* "collect" (processPost returned), "done", "handed" (its
                    \* results were passed on)
    currentPost,    \* execute: the post of the current iteration
    imageLog,       \* history: per post of the batch, whether the OCR of each
                    \* of its images succeeded
    visionResult,   \* execute: its VisionProcessingResult
    handlerPc,      \* where LambdaHandler.execute is: "idle", the step it is
                    \* about to take, "returned" or "threw"
    lambdaResponse, \* execute: the LambdaResponse it is to return
    isInitialized,  \* databaseConnection.dataSource.isInitialized
    handlerLog      \* history: the steps execute took, each with whether it
                    \* completed, over the invocations

visionVars == <<lastIndex, combinedText, processedImages, lastCall, postResult>>
geminiVars == <<visionResults, marketBlocks, geminiDone>>
persistVars == <<store, pc, promotion, firstSeen>>
rerunVars == <<input, runs, result, storeBefore>>
notifyVars == <<today, reports, emailResult>>
mergeVars == <<heap, merged, mergeLog>>
extractVars == <<extractPc, pending, calls, extractResult, marketLog>>
stepVars == <<procs, trace>>
batchVars == <<visionPc, currentPost, imageLog, visionResult>>
handlerVars == <<handlerPc, lambdaResponse, isInitialized, handlerLog>>

None == [none |-> TRUE]

Range(s) == {s[i] : i \in 1..Len(s)}

(***************************************************************************)
(* VisionService: keywords and price patterns                              *)
(***************************************************************************)
PROMOTION_KEYWORDS == <<
    <<"p", "r", "o", "m", "o", "c_cedilla", "a_tilde", "o">>, <<"p", "r", "o", "m", "o", "c", "a", "o">>,
    <<"o", "f", "e", "r", "t", "a">>, <<"d", "e", "s", "c", "o", "n", "t", "o">>,
    <<"l", "i", "q", "u", "i", "d", "a", "c_cedilla", "a_tilde", "o">>, <<"l", "i", "q", "u", "i", "d", "a", "c", "a", "o">>,
    <<"b", "a", "r", "a", "t", "o">>, <<"p", "r", "e", "c_cedilla", "o">>,
    <<"p", "r", "e", "c", "o">>, <<"r", "e", "a", "l">>,
    <<"r", "$">>, <<"p", "o", "r">>,
    <<"d", "e">>, <<"a", "t", "e">>,
    <<"a", "t", "e_acute">>, <<"s", "u", "p", "e", "r">>,
    <<"m", "e", "g", "a">>, <<"h", "i", "p", "e", "r">>,
    <<"e", "x", "t", "r", "a">>, <<"e", "s", "p", "e", "c", "i", "a", "l">>,
    <<"i", "m", "p", "e", "r", "d", "i_acute", "v", "e", "l">>, <<"i", "m", "p", "e", "r", "d", "i", "v", "e", "l">>,
    <<"q", "u", "e", "i", "m", "a">>, <<"s", "a", "l", "d", "a_tilde", "o">>,
    <<"s", "a", "l", "d", "a", "o">>, <<"b", "l", "a", "c", "k">>,
    <<"f", "r", "i", "d", "a", "y">>, <<"f", "e", "i", "r", "a">>,
    <<"s", "e", "m", "a", "n", "a">>, <<"v", "a_acute", "l", "i", "d", "o">>,
    <<"v", "a", "l", "i", "d", "o">>, <<"d", "i", "a", "s">>,
    <<"d", "o", "m", "i", "n", "g", "o">>, <<"s", "e", "g", "u", "n", "d", "a">>,
    <<"t", "e", "r", "c_cedilla", "a">>, <<"t", "e", "r", "c", "a">>,
    <<"q", "u", "a", "r", "t", "a">>, <<"q", "u", "i", "n", "t", "a">>,
    <<"s", "e", "x", "t", "a">>, <<"s", "a_acute", "b", "a", "d", "o">>,
    <<"s", "a", "b", "a", "d", "o">>
>>

IsDigit(c) == c \in {"0", "1", "2", "3", "4", "5", "6", "7", "8", "9"}

\* the characters of the class \s that occur in the modelled texts
IsSpace(c) == c \in {" ", "\n", "\t"}

\* the class [,.]
IsSep(c) == c \in {",", "."}

UpperToLower == [A |-> "a", B |-> "b", C |-> "c", D |-> "d", E |-> "e", F |-> "f",
                 G |-> "g", H |-> "h", I |-> "i", J |-> "j", K |-> "k", L |-> "l",
                 M |-> "m", N |-> "n", O |-> "o", P |-> "p", Q |-> "q", R |-> "r",
                 S |-> "s", T |-> "t", U |-> "u", V |-> "v", W |-> "w", X |-> "x",
                 Y |-> "y", Z |-> "z"]

LowerChar(c) == IF c \in DOMAIN UpperToLower THEN UpperToLower[c] ELSE c

\* String.prototype.toLowerCase
ToLowerCase(t) == [i \in 1..Len(t) |-> LowerChar(t[i])]

\* String.prototype.includes
Includes(t, k) ==
    \E i \in 0..(Len(t) - Len(k)) : t[i + 1] = k[1] /\ SubSeq(t, i + 1, i + Len(k)) = k

\* text.trim().length === 0 (also true of the empty text, for which !text holds)
IsBlank(t) == \A i \in 1..Len(t) : IsSpace(t[i])

NoMatch == 0 - 1

\* a literal of a pattern with the i flag, at index i; lit is in lower case
LitAt(t, i, lit) ==
    /\ i + Len(lit) <= Len(t)
    /\ \A j \in 1..Len(lit) : LowerChar(t[i + j]) = lit[j]

\* the index after the longest run of digits starting at index i (\d*)
SkipDigits(t, i) ==
    CHOOSE e \in i..Len(t) :
        /\ \A k \in i..(e - 1) : IsDigit(t[k + 1])
        /\ (e = Len(t) \/ ~IsDigit(t[e + 1]))

\* the index after the longest run of whitespace starting at index i (\s*)
SkipSpaces(t, i) ==
    CHOOSE e \in i..Len(t) :
        /\ \A k \in i..(e - 1) : IsSpace(t[k + 1])
        /\ (e = Len(t) \/ ~IsSpace(t[e + 1]))

\* \d+[,.]?\d* at index i: the index after the match, or NoMatch
NumberEnd(t, i) ==
    IF i < Len(t) /\ IsDigit(t[i + 1])
    THEN LET a == SkipDigits(t, i)
             b == IF a < Len(t) /\ IsSep(t[a + 1]) THEN a + 1 ELSE a
         IN  SkipDigits(t, b)
    ELSE NoMatch

\* \s+ at index i: the index after the match, or NoMatch
SpacesEnd(t, i) ==
    IF i >= 0 /\ i < Len(t) /\ IsSpace(t[i + 1]) THEN SkipSpaces(t, i) ELSE NoMatch

\* /R\$\s*\d+[,.]?\d*/gi anchored at index i
MatchEnd1(t, i) ==
    IF LitAt(t, i, <<"r", "$">>) THEN NumberEnd(t, SkipSpaces(t, i + 2)) ELSE NoMatch

\* /\d+[,.]?\d*\s*reais?/gi anchored at index i
MatchEnd2(t, i) ==
    LET n == NumberEnd(t, i) IN
    IF n = NoMatch THEN NoMatch
    ELSE LET s == SkipSpaces(t, n) IN
         IF LitAt(t, s, <<"r", "e", "a", "i">>)
         THEN IF LitAt(t, s + 4, <<"s">>) THEN s + 5 ELSE s + 4
         ELSE NoMatch

\* /por\s+\d+[,.]?\d*/gi anchored at index i
MatchEnd3(t, i) ==
    IF LitAt(t, i, <<"p", "o", "r">>)
    THEN LET s == SpacesEnd(t, i + 3) IN
         IF s = NoMatch THEN NoMatch ELSE NumberEnd(t, s)
    ELSE NoMatch

\* /de\s+\d+[,.]?\d*\s+por\s+\d+[,.]?\d*/gi anchored at index i
MatchEnd4(t, i) ==
    IF LitAt(t, i, <<"d", "e">>)
    THEN LET s == SpacesEnd(t, i + 2) IN
         IF s = NoMatch THEN NoMatch
         ELSE LET n == NumberEnd(t, s) IN
              IF n = NoMatch THEN NoMatch
              ELSE LET r == SpacesEnd(t, n) IN
                   IF r = NoMatch THEN NoMatch ELSE MatchEnd3(t, r)
    ELSE NoMatch

NumPatterns == 4

\* PRICE_PATTERNS[k] anchored at index i: the index after the match, or NoMatch
MatchEnd(k, t, i) ==
    CASE k = 1 -> MatchEnd1(t, i)
      [] k = 2 -> MatchEnd2(t, i)
      [] k = 3 -> MatchEnd3(t, i)
      [] k = 4 -> MatchEnd4(t, i)

\* the start indices >= from at which PRICE_PATTERNS[k] matches in t
MatchStarts(k, t, from) ==
    {i \in from..(Len(t) - 1) : MatchEnd(k, t, i) # NoMatch}

SetMin(S) == CHOOSE x \in S : \A y \in S : x <= y

\* RegExp.prototype.test of a pattern with the g flag: the search starts at the
\* pattern's lastIndex; a match leaves lastIndex after the match, a failure
\* resets it to 0
RegExpTest(k, t, li) ==
    LET starts == IF li > Len(t) THEN {} ELSE MatchStarts(k, t, li) IN
    IF starts = {}
    THEN [found |-> FALSE, lastIndex |-> 0]
    ELSE [found |-> TRUE, lastIndex |-> MatchEnd(k, t, SetMin(starts))]

\* PRICE_PATTERNS.some((pattern) => pattern.test(text)): the patterns are tested
\* in order from pattern k on, stopping at the first that matches; li is the
\* lastIndex of each pattern
RECURSIVE SomePatternTests(_, _, _)
SomePatternTests(k, t, li) ==
    IF k > NumPatterns
    THEN [found |-> FALSE, lastIndex |-> li]
    ELSE LET r   == RegExpTest(k, t, li[k])
             li2 == [li EXCEPT ![k] = r.lastIndex]
         IN  IF r.found
             THEN [found |-> TRUE, lastIndex |-> li2]
             ELSE SomePatternTests(k + 1, t, li2)

\* the keywords of the list that occur in the normalized text
KeywordHits(normalizedText) ==
    {k \in 1..Len(PROMOTION_KEYWORDS) : Includes(normalizedText, PROMOTION_KEYWORDS[k])}

KeywordThreshold == 3

\* the decision with || in place of &&
IsPromotionEitherSignal(hasPromotionKeywords, hasPricePatterns, keywordCount) ==
    (hasPromotionKeywords \/ hasPricePatterns) \/ keywordCount >= KeywordThreshold

\* isPromotionCatalog, "Logica de decisao"
IsPromotion(hasPromotionKeywords, hasPricePatterns, keywordCount) ==
    (hasPromotionKeywords /\ hasPricePatterns) \/ keywordCount >= KeywordThreshold

\* the early return with the wrong constant
BlankResultTrue == TRUE

\* isPromotionCatalog on a blank text
BlankResult == FALSE

\* VisionService.isPromotionCatalog(text) with the patterns' lastIndex li: the
\* boolean returned and the lastIndex the call leaves
IsPromotionCatalog(text, li) ==
    IF IsBlank(text)
    THEN [result |-> BlankResult, lastIndex |-> li]
    ELSE LET normalizedText       == ToLowerCase(text)
             hits                 == KeywordHits(normalizedText)
             hasPromotionKeywords == hits # {}
             price                == SomePatternTests(1, text, li)
             keywordCount         == Cardinality(hits)
         IN  [result    |-> IsPromotion(hasPromotionKeywords, price.found, keywordCount),
              lastIndex |-> price.lastIndex]

(***************************************************************************)
(* The texts the OCR backend returns for an image                          *)
(***************************************************************************)
TxtPrice    == <<"R", "$", " ", "5">>
TxtOferta   == <<"o", "f", "e", "r", "t", "a">>
TxtDePor    == <<"d", "e", " ", "9", " ", "p", "o", "r", " ", "3">>
TxtReais    == <<"1", "0", " ", "r", "e", "a", "i", "s">>
TxtSemana   == <<"S", "e", "m", "a", "n", "a", " ", "d", "e", " ", "O", "F", "E", "R", "T", "A">>
TxtTwoWords == <<"p", "o", "r", " ", "d", "e">>
TxtSpace    == <<" ">>
TxtEmpty    == <<>>

OcrTexts ==
    {TxtPrice, TxtOferta, TxtDePor, TxtReais, TxtSemana, TxtTwoWords, TxtSpace,
     TxtEmpty}

\* processImage's OCRResult: success and text; an image whose download or OCR
\* failed, or in which no text was detected, has success = false and text ''
OcrFailed == [success |-> FALSE, text |-> <<>>]

OcrResults == {[success |-> TRUE, text |-> t] : t \in OcrTexts} \cup {OcrFailed}

MaxImages == 2

(***************************************************************************)
(* VisionService.processPost, one image at a time                          *)
(***************************************************************************)
VisionInit ==
    /\ lastIndex = [k \in 1..NumPatterns |-> 0]
    /\ combinedText = <<>>
    /\ processedImages = 0
    /\ lastCall = None
    /\ postResult = None

\* processPost's text of an image appended to the post's combined text
AppendText(combined, text) == combined \o text \o <<"\n">>

Stale(li) == \E k \in 1..NumPatterns : li[k] > 0

\* the loop body of processPost for one image: processImage, then the
\* accumulation of the text when the OCR succeeded
ProcessImage(ocr) ==
    /\ processedImages < MaxImages
    /\ postResult' = None
    /\ IF ~ocr.success
       THEN UNCHANGED <<lastIndex, combinedText, lastCall, processedImages>>
       ELSE LET c == IsPromotionCatalog(ocr.text, lastIndex) IN
            /\ lastIndex' = c.lastIndex
            /\ lastCall' = [text |-> ocr.text, result |-> c.result, post |-> FALSE,
                             stale |-> Stale(lastIndex)]
            /\ processedImages' = processedImages + 1
            /\ combinedText' = AppendText(combinedText, ocr.text)

\* the text processPost classifies the post on
PostText(combined) == combined

\* the end of processPost: the post is classified on its combined text
FinishPost ==
    LET c == IsPromotionCatalog(PostText(combinedText), lastIndex) IN
    /\ lastIndex' = c.lastIndex
    /\ lastCall' = [text |-> combinedText, result |-> c.result, post |-> TRUE,
                     stale |-> Stale(lastIndex)]
    /\ postResult' = [combinedText    |-> combinedText,
                      isPromotionPost |-> c.result,
                      processedImages |-> processedImages,
                      success         |-> processedImages > 0]
    /\ combinedText' = <<>>
    /\ processedImages' = 0

(***************************************************************************)
(* GeminiService: the posts handed to the extractor, grouped by market     *)
(***************************************************************************)
MarketNames == {"Atacadao", "Bompreco"}

PostCodes == {"p1", "p2"}

\* the combined texts and classifications processPost produces
VisionOutcomes ==
    {[combinedText |-> AppendText(<<>>, TxtPrice), isPromotionPost |-> TRUE],
     [combinedText |-> AppendText(<<>>, TxtSemana), isPromotionPost |-> TRUE],
     [combinedText |-> AppendText(<<>>, TxtOferta), isPromotionPost |-> FALSE],
     [combinedText |-> <<>>, isPromotionPost |-> FALSE]}

PostOCRResults ==
    {[postCode |-> c, marketName |-> m, combinedText |-> o.combinedText,
      isPromotionPost |-> o.isPromotionPost] :
        c \in PostCodes, m \in MarketNames, o \in VisionOutcomes}

MaxVisionPosts == 3

SeqsUpTo(S, n) == UNION {[1..k -> S] : k \in 0..n}

\* execute: the filter on the vision results
IsPromotionWithText(post) == post.isPromotionPost /\ ~IsBlank(post.combinedText)

\* the reducer creating a group for every post
PushToNewGroup(groups, post) ==
    Append(groups, [marketName |-> post.marketName, posts |-> <<post>>])

\* the reducer putting the post in front of its market's group
PushToGroupFront(groups, post) ==
    IF \E g \in 1..Len(groups) : groups[g].marketName = post.marketName
    THEN [g \in 1..Len(groups) |->
            IF groups[g].marketName = post.marketName
            THEN [groups[g] EXCEPT !.posts = <<post>> \o @]
            ELSE groups[g]]
    ELSE Append(groups, [marketName |-> post.marketName, posts |-> <<post>>])

\* groupPostsByMarket's reducer: the post is pushed on its market's group, which
\* is created when the market has none; groups are kept in creation order
PushToGroup(groups, post) ==
    IF \E g \in 1..Len(groups) : groups[g].marketName = post.marketName
    THEN [g \in 1..Len(groups) |->
            IF groups[g].marketName = post.marketName
            THEN [groups[g] EXCEPT !.posts = Append(@, post)]
            ELSE groups[g]]
    ELSE Append(groups, [marketName |-> post.marketName, posts |-> <<post>>])

\* groupPostsByMarket: posts.reduce over the posts in list order
RECURSIVE GroupPostsByMarketFrom(_, _, _)
GroupPostsByMarketFrom(posts, i, groups) ==
    IF i > Len(posts) THEN groups
    ELSE GroupPostsByMarketFrom(posts, i + 1, PushToGroup(groups, posts[i]))

GroupPostsByMarket(posts) == GroupPostsByMarketFrom(posts, 1, <<>>)

\* processMarketPosts: `POST ${post.postCode}:\n${post.combinedText}\n---\n`, as
\* its pieces: the literals, the post code and the post's text
PostBlock(post) ==
    <<[lit |-> "POST "], [code |-> post.postCode], [lit |-> ":\n"],
      [text |-> post.combinedText], [lit |-> "\n---\n"]>>

\* Array.prototype.join('\n') of the posts' blocks from post i on
RECURSIVE JoinBlocksFrom(_, _)
JoinBlocksFrom(posts, i) ==
    IF i > Len(posts) THEN <<>>
    ELSE IF i = Len(posts) THEN PostBlock(posts[i])
    ELSE PostBlock(posts[i]) \o <<[lit |-> "\n"]>> \o JoinBlocksFrom(posts, i + 1)

\* processMarketPosts: the combined text of one market's posts
MarketCombinedText(posts) == JoinBlocksFrom(posts, 1)

\* the filter of execute
PromotionPostsOf(results) == SelectSeq(results, IsPromotionWithText)

GeminiInit ==
    /\ visionResults \in SeqsUpTo(PostOCRResults, MaxVisionPosts)
    /\ marketBlocks = <<>>
    /\ geminiDone = FALSE

\* GeminiService.execute up to the prompt of each market: the filter, the
\* grouping by market and, per market in group order, the combined text
GeminiExecute ==
    /\ ~geminiDone
    /\ geminiDone' = TRUE
    /\ LET postsByMarket == GroupPostsByMarket(PromotionPostsOf(visionResults)) IN
       marketBlocks' =
           [g \in 1..Len(postsByMarket) |->
               [marketName   |-> postsByMarket[g].marketName,
                combinedText |-> MarketCombinedText(postsByMarket[g].posts)]]
    /\ UNCHANGED visionResults

(***************************************************************************)
(* JavaScript values, and SavePromotionService.extractNumericPrice         *)
(***************************************************************************)
\* a string is [str |-> its characters]
Str(chars) == [str |-> chars]

\* a property the response gives no value for
Undefined == [undefined |-> TRUE]

\* a number is [num |-> its value], or NaN
NaN == [nan |-> TRUE]

IsNum(x) == "num" \in DOMAIN x

IsStr(x) == "str" \in DOMAIN x

DigitValue(c) ==
    CASE c = "0" -> 0 [] c = "1" -> 1 [] c = "2" -> 2 [] c = "3" -> 3 [] c = "4" -> 4
      [] c = "5" -> 5 [] c = "6" -> 6 [] c = "7" -> 7 [] c = "8" -> 8 [] c = "9" -> 9

RECURSIVE DigitsValue(_, _, _)
DigitsValue(text, i, acc) ==
    IF i > Len(text) THEN acc
    ELSE DigitsValue(text, i + 1, acc * 10 + DigitValue(text[i]))

\* .replace(/R\$\s*/g, ''): every R$ goes, with the white space after it
RECURSIVE RemoveCurrency(_, _)
RemoveCurrency(text, i) ==
    IF i >= Len(text) THEN <<>>
    ELSE IF i + 1 < Len(text) /\ text[i + 1] = "R" /\ text[i + 2] = "$"
    THEN RemoveCurrency(text, SkipSpaces(text, i + 2))
    ELSE <<text[i + 1]>> \o RemoveCurrency(text, i + 1)

\* .replace(/\./g, ''): every point goes
RemovePoints(text) == SelectSeq(text, LAMBDA c : c # ".")

\* .replace(',', '.'): the first comma becomes a point
CommaToPoint(text) ==
    LET commas == {i \in 1..Len(text) : text[i] = ","} IN
    IF commas = {} THEN text ELSE [text EXCEPT ![SetMin(commas)] = "."]

\* a decimal number is mant / 10^scale, without trailing fraction zeros
RECURSIVE Decimal(_, _)
Decimal(mant, scale) ==
    IF scale > 0 /\ mant % 10 = 0 THEN Decimal(mant \div 10, scale - 1)
    ELSE [num |-> [mant |-> mant, scale |-> scale]]

Zero == Decimal(0, 0)

\* parseFloat of a text without exponent, scanned from index i on: white
\* space is skipped ("space"), then a sign is taken ("sign"), then the digits
\* before ("int") and after ("frac") a point; the scan stops at the first
\* character that cannot go on the number, which is NaN when no digit was seen
RECURSIVE ScanFloat(_, _, _, _, _, _, _)
ScanFloat(text, i, phase, negative, mant, scale, seen) ==
    LET more == i < Len(text) IN
    CASE phase = "space" ->
            IF more /\ IsSpace(text[i + 1])
            THEN ScanFloat(text, i + 1, "space", negative, mant, scale, seen)
            ELSE ScanFloat(text, i, "sign", negative, mant, scale, seen)
      [] phase = "sign" ->
            IF more /\ text[i + 1] \in {"+", "-"}
            THEN ScanFloat(text, i + 1, "int", text[i + 1] = "-", mant, scale, seen)
            ELSE ScanFloat(text, i, "int", negative, mant, scale, seen)
      [] phase = "int" ->
            IF more /\ IsDigit(text[i + 1])
            THEN ScanFloat(text, i + 1, "int", negative,
                           mant * 10 + DigitValue(text[i + 1]), scale, TRUE)
            ELSE IF more /\ text[i + 1] = "."
            THEN ScanFloat(text, i + 1, "frac", negative, mant, scale, seen)
            ELSE ScanFloat(text, i, "end", negative, mant, scale, seen)
      [] phase = "frac" ->
            IF more /\ IsDigit(text[i + 1])
            THEN ScanFloat(text, i + 1, "frac", negative,
                           mant * 10 + DigitValue(text[i + 1]), scale + 1, TRUE)
            ELSE ScanFloat(text, i, "end", negative, mant, scale, seen)
      [] phase = "end" ->
            IF ~seen THEN NaN
            ELSE IF negative THEN Decimal(0 - mant, scale)
            ELSE Decimal(mant, scale)

\* parseFloat; its argument is bound to its value, so it is evaluated once
ParseFloat(text) ==
    CHOOSE n \in {ScanFloat(t, 0, "space", FALSE, 0, 0, FALSE) : t \in {text}} : TRUE

\* extractNumericPrice that keeps the points
ExtractNumericPriceKeepPoints(priceString) ==
    IF ~IsStr(priceString) THEN Zero
    ELSE CHOOSE price \in
             {IF parsed = NaN THEN Zero ELSE parsed :
                 parsed \in {ParseFloat(CommaToPoint(RemoveCurrency(priceString.str, 0)))}} :
             TRUE

\* extractNumericPrice: the three replace calls, then parseFloat(...) || 0; a
\* price that is not a string has no replace, which throws into the catch: 0
ExtractNumericPrice(priceString) ==
    IF ~IsStr(priceString) THEN Zero
    ELSE CHOOSE price \in
             {IF parsed = NaN THEN Zero ELSE parsed :
                 parsed \in {ParseFloat(CommaToPoint(RemovePoints(
                                 RemoveCurrency(priceString.str, 0))))}} :
             TRUE

(***************************************************************************)
(* SavePromotionService: the store and the persister                       *)
(***************************************************************************)
\* the Market rows, curated outside the pipeline
SeedMarkets ==
    <<[id |-> 1, name |-> "Atacadao"], [id |-> 2, name |-> "Bompreco"]>>

\* a market name the extractor may emit that has no Market row
UnknownMarket == "Mercadinho"

EmptyStore ==
    [markets |-> SeedMarkets, promotions |-> <<>>, posts |-> <<>>, products |-> <<>>]

\* PrimaryGeneratedColumn: rows are never deleted, so the next id is the
\* number of rows plus one
NextId(rows) == Len(rows) + 1

\* Repository.findOne: the first of the rows that satisfy the where clause (hits
\* are their positions), or null
FindOne(rows, hits) ==
    IF hits = {} THEN None ELSE rows[SetMin(hits)]

\* findMarket: the Market row of that name, or null (for which it throws)
FindMarket(st, marketName) ==
    FindOne(st.markets, {i \in 1..Len(st.markets) : st.markets[i].name = marketName})

\* the where clause of findExistingPromotion
PromotionWhere(row, marketId, startDate, endDate) ==
    row.marketId = marketId /\ row.startDate = startDate /\ row.endDate = endDate

\* a lookup that never finds the promotion
FindNoPromotion(st, marketId, startDate, endDate) == None

\* findExistingPromotion
FindExistingPromotion(st, marketId, startDate, endDate) ==
    FindOne(st.promotions,
            {i \in 1..Len(st.promotions) :
                PromotionWhere(st.promotions[i], marketId, startDate, endDate)})

\* createPromotion: the store with the new Promotion row
CreatePromotion(st, geminiPromotion, market) ==
    [st EXCEPT !.promotions =
        Append(@, [id        |-> NextId(st.promotions),
                   marketId  |-> market.id,
                   startDate |-> geminiPromotion.startDate,
                   endDate   |-> geminiPromotion.endDate])]

\* a lookup that never finds the post
FindNoPost(st, postCode) == None

\* savePost: the lookup of the post by its code
FindPost(st, postCode) ==
    FindOne(st.posts, {i \in 1..Len(st.posts) : st.posts[i].postCode = postCode})

\* saveProduct: the store with the new Product row
SaveProduct(st, geminiProduct, postId) ==
    [st EXCEPT !.products =
        Append(@, [id          |-> NextId(st.products),
                   postId      |-> postId,
                   description |-> geminiProduct.description,
                   price       |-> ExtractNumericPrice(geminiProduct.price)])]

\* savePost's loop over the products of the post, from product i on
RECURSIVE SaveProductsFrom(_, _, _, _)
SaveProductsFrom(st, products, i, postId) ==
    IF i > Len(products) THEN st
    ELSE SaveProductsFrom(SaveProduct(st, products[i], postId), products, i + 1, postId)

\* savePost saving the products of a post that exists already
SavePostProductsAgain(st, geminiPost, promotionId) ==
    LET existing == FindPost(st, geminiPost.postCode) IN
    IF existing # None
    THEN [store |-> SaveProductsFrom(st, geminiPost.products, 1, existing.id),
          savedPosts |-> 0, savedProducts |-> Len(geminiPost.products)]
    ELSE LET postId == NextId(st.posts)
             st1 == [st EXCEPT !.posts =
                        Append(@, [id          |-> postId,
                                   postCode    |-> geminiPost.postCode,
                                   promotionId |-> promotionId])]
         IN  [store         |-> SaveProductsFrom(st1, geminiPost.products, 1, postId),
              savedPosts    |-> 1,
              savedProducts |-> Len(geminiPost.products)]

\* savePost: the store it leaves and its stats
SavePost(st, geminiPost, promotionId) ==
    IF FindPost(st, geminiPost.postCode) # None
    THEN [store |-> st, savedPosts |-> 0, savedProducts |-> 0]
    ELSE LET postId == NextId(st.posts)
             st1 == [st EXCEPT !.posts =
                        Append(@, [id          |-> postId,
                                   postCode    |-> geminiPost.postCode,
                                   promotionId |-> promotionId])]
         IN  [store         |-> SaveProductsFrom(st1, geminiPost.products, 1, postId),
              savedPosts    |-> 1,
              savedProducts |-> Len(geminiPost.products)]

\* savePromotion's loop over the posts of the candidate, from post i on
RECURSIVE SavePostsFrom(_, _, _, _, _)
SavePostsFrom(st, posts, i, promotionId, stats) ==
    IF i > Len(posts) THEN [store |-> st, stats |-> stats]
    ELSE CHOOSE rest \in
             {SavePostsFrom(r.store, posts, i + 1, promotionId,
                            [stats EXCEPT !.savedPosts = @ + r.savedPosts,
                                          !.savedProducts = @ + r.savedProducts]) :
                 r \in {SavePost(st, posts[i], promotionId)}} : TRUE

\* savePromotion, steps 1 to 3: the market is resolved (threw when there is
\* none), the promotion is found or created
ResolvePromotion(st, geminiPromotion) ==
    LET market == FindMarket(st, geminiPromotion.marketName) IN
    IF market = None
    THEN [threw |-> TRUE, store |-> st, promotionId |-> 0, savedPromotions |-> 0]
    ELSE LET found == FindExistingPromotion(st, market.id, geminiPromotion.startDate,
                                            geminiPromotion.endDate)
         IN  IF found # None
             THEN [threw |-> FALSE, store |-> st, promotionId |-> found.id,
                   savedPromotions |-> 0]
             ELSE [threw |-> FALSE,
                   store |-> CreatePromotion(st, geminiPromotion, market),
                   promotionId |-> NextId(st.promotions),
                   savedPromotions |-> 1]

\* savePromotion: the store it leaves, its stats, and whether it threw
SavePromotion(st, geminiPromotion) ==
    LET p == ResolvePromotion(st, geminiPromotion) IN
    IF p.threw
    THEN [threw |-> TRUE, store |-> st,
          stats |-> [savedPromotions |-> 0, savedPosts |-> 0, savedProducts |-> 0]]
    ELSE LET r == SavePostsFrom(p.store, geminiPromotion.posts, 1, p.promotionId,
                                [savedPromotions |-> p.savedPromotions,
                                 savedPosts |-> 0, savedProducts |-> 0])
         IN  [threw |-> FALSE, store |-> r.store, stats |-> r.stats]

\* a candidate that throws ends the loop of saveGeminiResults
RECURSIVE SaveUntilThrow(_, _, _, _)
SaveUntilThrow(st, promotions, i, res) ==
    IF i > Len(promotions) THEN [store |-> st, result |-> res]
    ELSE CHOOSE rest \in
             {IF r.threw
              THEN [store |-> st, result |-> [res EXCEPT !.errors = @ + 1]]
              ELSE SaveUntilThrow(r.store, promotions, i + 1,
                       [res EXCEPT !.savedPromotions = @ + r.stats.savedPromotions,
                                   !.savedPosts = @ + r.stats.savedPosts,
                                   !.savedProducts = @ + r.stats.savedProducts]) :
                 r \in {SavePromotion(st, promotions[i])}} : TRUE

\* saveGeminiResults' loop over the candidates, from candidate i on: a
\* candidate that throws adds an error and the loop goes on
RECURSIVE SaveEachPromotion(_, _, _, _)
SaveEachPromotion(st, promotions, i, res) ==
    IF i > Len(promotions) THEN [store |-> st, result |-> res]
    ELSE CHOOSE rest \in
             {IF r.threw
              THEN SaveEachPromotion(st, promotions, i + 1, [res EXCEPT !.errors = @ + 1])
              ELSE SaveEachPromotion(r.store, promotions, i + 1,
                       [res EXCEPT !.savedPromotions = @ + r.stats.savedPromotions,
                                   !.savedPosts = @ + r.stats.savedPosts,
                                   !.savedProducts = @ + r.stats.savedProducts]) :
                 r \in {SavePromotion(st, promotions[i])}} : TRUE

SumLen(seqs) ==
    LET RECURSIVE From(_)
        From(i) == IF i > Len(seqs) THEN 0 ELSE Len(seqs[i]) + From(i + 1)
    IN  From(1)

\* result.totalPosts
TotalPosts(promotions) ==
    SumLen([i \in 1..Len(promotions) |-> promotions[i].posts])

\* result.totalProducts
TotalProducts(promotions) ==
    LET RECURSIVE From(_)
        From(i) == IF i > Len(promotions) THEN 0
                   ELSE SumLen([j \in 1..Len(promotions[i].posts) |->
                                   promotions[i].posts[j].products]) + From(i + 1)
    IN  From(1)

\* saveGeminiResults: the store it leaves and the DatabaseSaveResult (errors is
\* the number of error messages)
SaveGeminiResults(st, promotions) ==
    LET r == SaveEachPromotion(st, promotions, 1,
                 [savedPromotions |-> 0, savedPosts |-> 0, savedProducts |-> 0,
                  errors |-> 0])
    IN  [store  |-> r.store,
         result |-> [totalPromotions |-> Len(promotions),
                     totalPosts      |-> TotalPosts(promotions),
                     totalProducts   |-> TotalProducts(promotions),
                     savedPromotions |-> r.result.savedPromotions,
                     savedPosts      |-> r.result.savedPosts,
                     savedProducts   |-> r.result.savedProducts,
                     errors          |-> r.result.errors,
                     success         |-> r.result.savedPromotions > 0
                                            \/ r.result.savedPosts > 0]]

(***************************************************************************)
(* The candidates the extraction stage hands to the persister              *)
(***************************************************************************)
\* validity windows [startDate, endDate] as day numbers
Windows == {<<15, 20>>, <<15, 21>>}

GeminiProduct == [description |-> "Arroz 5kg", price |-> Str(<<"R", "$", " ", "5">>)]

MaxProducts == 2

ProductLists == {[i \in 1..k |-> GeminiProduct] : k \in 0..MaxProducts}

GeminiPosts == {[postCode |-> c, products |-> ps] : c \in PostCodes, ps \in ProductLists}

CandidateMarkets == MarketNames \cup {UnknownMarket}

(***************************************************************************)
(* The persister over any sequence of runs, one candidate post at a time   *)
(***************************************************************************)
PersistInit ==
    /\ store = EmptyStore
    /\ pc = "idle"
    /\ promotion = 0
    /\ firstSeen = [c \in PostCodes |-> None]

\* saveGeminiResults is called
BeginRun ==
    /\ pc = "idle"
    /\ pc' = "loop"
    /\ UNCHANGED <<store, promotion, firstSeen>>

\* savePromotion up to its post loop, for a candidate of that market and window
BeginPromotion(marketName, window) ==
    /\ pc = "loop"
    /\ LET p == ResolvePromotion(store, [marketName |-> marketName,
                                         startDate |-> window[1],
                                         endDate |-> window[2]])
       IN  /\ store' = p.store
           /\ promotion' = p.promotionId
           /\ pc' = IF p.threw THEN "loop" ELSE "posts"
    /\ UNCHANGED firstSeen

\* one iteration of savePromotion's post loop: savePost
SavePostStep(geminiPost) ==
    /\ pc = "posts"
    /\ store' = SavePost(store, geminiPost, promotion).store
    /\ firstSeen' =
           IF firstSeen[geminiPost.postCode] = None
           THEN [firstSeen EXCEPT ![geminiPost.postCode] =
                    [promotionId |-> promotion, products |-> Len(geminiPost.products),
                     again |-> FALSE]]
           ELSE [firstSeen EXCEPT ![geminiPost.postCode].again = TRUE]
    /\ UNCHANGED <<pc, promotion>>

\* savePromotion returns
EndPromotion ==
    /\ pc = "posts"
    /\ pc' = "loop"
    /\ promotion' = 0
    /\ UNCHANGED <<store, firstSeen>>

\* saveGeminiResults returns
EndRun ==
    /\ pc = "loop"
    /\ pc' = "idle"
    /\ UNCHANGED <<store, promotion, firstSeen>>

(***************************************************************************)
(* The persister run repeatedly on one candidate list                      *)
(***************************************************************************)
\* the market and window of the candidates of the list: two windows of a
\* market of the store, and a market the store does not hold
ListHeaders ==
    {<<"Atacadao", <<15, 20>>>>, <<"Atacadao", <<15, 21>>>>, <<UnknownMarket, <<15, 20>>>>}

\* the rows the list asks for: its promotions, posts and products
Rows(promotions) == Len(promotions) + TotalPosts(promotions) + TotalProducts(promotions)

MaxRows == 6

MaxRuns == 2

NoResult == None

RerunInit ==
    /\ input = <<>>
    /\ runs = 0
    /\ result = NoResult
    /\ store = EmptyStore
    /\ storeBefore = EmptyStore

\* the extraction stage adds a candidate to its result
ExtractPromotion(marketName, window) ==
    /\ runs = 0
    /\ Rows(input) < MaxRows
    /\ input' = Append(input, [marketName |-> marketName, startDate |-> window[1],
                               endDate |-> window[2], posts |-> <<>>])
    /\ UNCHANGED <<runs, result, store, storeBefore>>

\* the extraction stage adds a post to its latest candidate
ExtractPost(postCode) ==
    /\ runs = 0
    /\ input # <<>>
    /\ Rows(input) < MaxRows
    /\ input' = [input EXCEPT ![Len(input)].posts =
                    Append(@, [postCode |-> postCode, products |-> <<>>])]
    /\ UNCHANGED <<runs, result, store, storeBefore>>

\* the extraction stage adds a product to the latest post of its latest candidate
ExtractProduct ==
    /\ runs = 0
    /\ input # <<>>
    /\ input[Len(input)].posts # <<>>
    /\ Rows(input) < MaxRows
    /\ input' = [input EXCEPT ![Len(input)].posts =
                    [@ EXCEPT ![Len(@)].products = Append(@, GeminiProduct)]]
    /\ UNCHANGED <<runs, result, store, storeBefore>>

\* the persistence step of a pipeline run: saveGeminiResults(input)
RunPersister ==
    /\ runs < MaxRuns
    /\ runs' = runs + 1
    /\ storeBefore' = store
    /\ LET r == SaveGeminiResults(store, input) IN
       /\ store' = r.store
       /\ result' = r.result
    /\ UNCHANGED input

\* runSavePromotions: a result without success makes it throw 'Database save
\* failed', which fails the run
DatabaseSaveFailed(res) == ~res.success

(***************************************************************************)
(* The persister given products with prices of every kind                  *)
(***************************************************************************)
\* price strings and the value each is to have, in cents
PricesInCents ==
    {[price |-> Str(<<"R","$"," ","1",".","2","3","4",",","5","6">>), cents |-> 123456],
     [price |-> Str(<<"R","$"," ","1","9",",","9","0">>), cents |-> 1990],
     [price |-> Str(<<"R","$","8",",","5","0">>), cents |-> 850],
     [price |-> Str(<<"1","2",",","9","9">>), cents |-> 1299],
     [price |-> Str(<<"R","$"," ","5">>), cents |-> 500],
     [price |-> Str(<<"R","$"," ","1",".","0","0","0",".","0","0","0",",","0","1">>),
      cents |-> 100000001]}

\* prices without a number: empty, words, the currency alone, a separator
\* alone, a sign alone; and prices that are not strings
UnparsablePrices ==
    {Str(<<>>), Str(<<"g","r","a","t","i","s">>), Str(<<"R","$"," ">>),
     Str(<<",">>), Str(<<".">>), Str(<<"-">>), Undefined, [num |-> 1990]}

Prices == {p.price : p \in PricesInCents} \cup UnparsablePrices

MaxPricedProducts == 2

\* one candidate of one post, whose products have any of the prices
PricedLists ==
    {<<[marketName |-> "Atacadao", startDate |-> 15, endDate |-> 20,
        posts |-> <<[postCode |-> "p1",
                     products |-> [i \in 1..Len(prices) |->
                                      [description |-> "Arroz 5kg", price |-> prices[i]]]]>>]>> :
        prices \in SeqsUpTo(Prices, MaxPricedProducts)}

PriceInit ==
    /\ input \in PricedLists
    /\ runs = 0
    /\ result = NoResult
    /\ store = EmptyStore
    /\ storeBefore = EmptyStore

(***************************************************************************)
(* GeminiService: the period merger                                        *)
(***************************************************************************)
\* `${promotion.marketName}_${promotion.startDate}_${promotion.endDate}`: the
\* dates are ISO strings of one fixed width, so two keys are equal exactly when
\* the three parts are
PeriodKey(candidate) == <<candidate.marketName, candidate.startDate, candidate.endDate>>

\* the position in grouped (a Map, in insertion order) of the key, or 0
GroupedIndex(grouped, key) ==
    LET hits == {g \in 1..Len(grouped) : grouped[g].key = key} IN
    IF hits = {} THEN 0 ELSE SetMin(hits)

\* a merger that puts the posts of a later candidate in front
MergeIntoFront(acc, ref) ==
    LET key == PeriodKey(acc.heap[ref])
        g == GroupedIndex(acc.grouped, key)
    IN  IF g # 0
        THEN LET existing == acc.grouped[g].ref IN
             [acc EXCEPT !.heap[existing].posts = acc.heap[ref].posts \o @]
        ELSE [acc EXCEPT !.grouped = Append(@, [key |-> key, ref |-> ref])]

\* the body of promotions.forEach: the posts of a candidate whose key is in
\* grouped are pushed onto the posts array of the object grouped holds for that
\* key; else grouped gets the candidate object itself
MergeInto(acc, ref) ==
    LET key == PeriodKey(acc.heap[ref])
        g == GroupedIndex(acc.grouped, key)
    IN  IF g # 0
        THEN LET existing == acc.grouped[g].ref IN
             [acc EXCEPT !.heap[existing].posts = @ \o acc.heap[ref].posts]
        ELSE [acc EXCEPT !.grouped = Append(@, [key |-> key, ref |-> ref])]

RECURSIVE MergeFrom(_, _, _)
MergeFrom(acc, refs, i) ==
    IF i > Len(refs) THEN acc
    ELSE MergeFrom(MergeInto(acc, refs[i]), refs, i + 1)

\* groupPromotionsByPeriod on the array refs of objects of hp: the heap it
\* leaves and Array.from(grouped.values())
GroupPromotionsByPeriod(hp, refs) ==
    LET acc == MergeFrom([heap |-> hp, grouped |-> <<>>], refs, 1) IN
    [heap |-> acc.heap,
     out  |-> [g \in 1..Len(acc.grouped) |-> acc.grouped[g].ref]]

\* the value of an array of references
Deref(hp, refs) == [i \in 1..Len(refs) |-> hp[refs[i]]]

\* the windows of the candidates: two that overlap and differ in the end date,
\* and one that differs from the first in the start date
MergeWindows == Windows \cup {<<16, 20>>}

\* the candidates createPromotionObject builds
MergeCandidates ==
    {[marketName |-> m, startDate |-> w[1], endDate |-> w[2],
      posts |-> <<[postCode |-> c, products |-> <<>>]>>] :
        m \in MarketNames, w \in MergeWindows, c \in PostCodes}

MaxCandidates == 3

MaxMerges == 2

MergeInit ==
    /\ heap \in SeqsUpTo(MergeCandidates, MaxCandidates)
    /\ merged = None
    /\ mergeLog = <<>>

\* the list the extractor collected, as references
ListRefs == [i \in 1..Len(heap) |-> i]

\* groupPromotionsByPeriod is applied to the array refs
Merge(given, refs) ==
    /\ Len(mergeLog) < MaxMerges
    /\ LET r == GroupPromotionsByPeriod(heap, refs) IN
       /\ heap' = r.heap
       /\ merged' = [refs |-> r.out]
       /\ mergeLog' = Append(mergeLog, [given    |-> given,
                                        argument |-> Deref(heap, refs),
                                        value    |-> Deref(r.heap, r.out)])

\* execute: result.promotions = groupPromotionsByPeriod(result.promotions)
MergeList == Merge("list", ListRefs)

\* the merger applied to the array it returned last
MergeMerged ==
    /\ merged # None
    /\ Merge("merged", merged.refs)

(***************************************************************************)
(* GeminiService: the model's response, its parsing, the candidates        *)
(***************************************************************************)
InvalidDate == [invalidDate |-> TRUE]

\* String.prototype.split('/') of a text
RECURSIVE SplitSlash(_, _, _)
SplitSlash(text, i, part) ==
    IF i > Len(text) THEN <<part>>
    ELSE IF text[i] = "/" THEN <<part>> \o SplitSlash(text, i + 1, <<>>)
    ELSE SplitSlash(text, i + 1, Append(part, text[i]))

\* Number(text) for a text of digits, letters and punctuation: 0 for the empty
\* text, the decimal value of a text of digits, NaN for any other
ToNumber(text) ==
    IF \A i \in 1..Len(text) : IsDigit(text[i])
    THEN [num |-> DigitsValue(text, 1, 0)] ELSE NaN

\* the days from 1 January 1970 to the civil date (year, month 1..12, day)
DaysFromCivil(year, month, day) ==
    LET y   == IF month <= 2 THEN year - 1 ELSE year
        era == y \div 400
        yoe == y - era * 400
        mp  == IF month > 2 THEN month - 3 ELSE month + 9
        doy == (153 * mp + 2) \div 5 + day - 1
        doe == yoe * 365 + yoe \div 4 - yoe \div 100 + doy
    IN  era * 146097 + doe - 719468

\* the day number of a date: 1 is 1 January 2025
DayNumber(year, month, day) == DaysFromCivil(year, month, day) - DaysFromCivil(2024, 12, 31)

DefaultYear == 2025

\* new Date(year, monthIndex, day): Invalid Date when an argument is NaN; a year
\* 0..99 is 1900 + year; a month index or day out of range carries over
NewDate(year, monthIndex, day) ==
    IF ~IsNum(year) \/ ~IsNum(monthIndex) \/ ~IsNum(day) THEN InvalidDate
    ELSE LET fullYear == IF year.num >= 0 /\ year.num <= 99 THEN 1900 + year.num
                         ELSE year.num
             y == fullYear + monthIndex.num \div 12
             m == monthIndex.num % 12
         IN  [day |-> DayNumber(y, m + 1, 1) + day.num - 1]

\* year || 2025: the default replaces undefined, NaN and 0
YearOrDefault(year) ==
    IF IsNum(year) /\ year.num # 0 THEN year ELSE [num |-> DefaultYear]

\* month - 1: NaN when month is undefined or NaN
MonthIndex(month) == IF IsNum(month) THEN [num |-> month.num - 1] ELSE NaN

\* const [day, month, year] = dateStr.split('/').map(Number)
DateParts(dateStr) ==
    LET parts == SplitSlash(dateStr.str, 1, <<>>)
        nums  == [p \in 1..Len(parts) |-> ToNumber(parts[p])]
    IN  [day   |-> nums[1],
         month |-> IF Len(nums) >= 2 THEN nums[2] ELSE Undefined,
         year  |-> IF Len(nums) >= 3 THEN nums[3] ELSE Undefined]

\* parseDate: new Date(year || 2025, month - 1, day) of the parts; the catch
\* (dateStr has no split: it is undefined) gives now
ParseDate(dateStr, now) ==
    IF dateStr = Undefined THEN [day |-> now]
    ELSE LET p == DateParts(dateStr) IN
         NewDate(YearOrDefault(p.year), MonthIndex(p.month), p.day)

\* the posts of createPromotionObject: promoData.posts?.map(...) || [], each
\* with products || []
\* posts.find(p => p.postCode === postCode): the first post of the prompt that
\* has the code; Undefined when none has
FindOriginalPost(posts, postCode) ==
    LET found == {p \in 1..Len(posts) : posts[p].postCode = postCode} IN
    IF found = {} THEN Undefined
    ELSE posts[CHOOSE p \in found : \A q \in found : p <= q]

\* promoData.posts?.map(...) || []: every post of the element with the code the
\* response gives it, and the id and text of the prompt's post of that code,
\* '' for each when the prompt has no such post
PromotionPosts(promoData, posts, marketName) ==
    IF promoData.posts = Undefined THEN <<>>
    ELSE [j \in 1..Len(promoData.posts.array) |->
            LET geminiPost   == promoData.posts.array[j]
                originalPost == FindOriginalPost(posts, geminiPost.postCode)
            IN  [postId        |-> IF originalPost = Undefined THEN ""
                                   ELSE originalPost.postId,
                 postCode      |-> geminiPost.postCode,
                 marketName    |-> marketName,
                 extractedText |-> IF originalPost = Undefined THEN <<>>
                                   ELSE originalPost.combinedText,
                 products      |-> IF geminiPost.products = Undefined THEN <<>>
                                   ELSE geminiPost.products.array]]

JsonNull == [null |-> TRUE]

\* createPromotionObject: the candidate, or threw (a property read of null;
\* toISOString of an Invalid Date)
CreatePromotionObject(promoData, posts, marketName, now) ==
    IF promoData = JsonNull THEN [threw |-> TRUE]
    ELSE LET startDate == ParseDate(promoData.startDate, now)
             endDate   == ParseDate(promoData.endDate, now)
         IN  IF startDate = InvalidDate \/ endDate = InvalidDate THEN [threw |-> TRUE]
             ELSE [threw |-> FALSE,
                   promotion |-> [marketName |-> marketName,
                                  startDate  |-> startDate.day,
                                  endDate    |-> endDate.day,
                                  posts      |-> PromotionPosts(promoData, posts, marketName)]]

\* A JSON array is [array |-> its elements].  A response text is a sequence of chunks: a code-fence marker, white space, a
\* complete JSON text (given by the value it denotes) or text that is not JSON.
\* the marker that opens a fenced JSON block: three backquotes and json
FenceJson == [fence |-> "json"]

\* the marker of three backquotes
Fence == [fence |-> "plain"]

WhiteSpace == [ws |-> "\n"]

Prose == [prose |-> "Segue o resultado:"]

\* the two replace calls: every FenceJson marker, then every Fence marker, is
\* removed
StripFences(text) == SelectSeq(text, LAMBDA c : c # FenceJson /\ c # Fence)

\* String.prototype.trim
RECURSIVE Trim(_)
Trim(text) ==
    IF text = <<>> THEN text
    ELSE IF text[1] = WhiteSpace THEN Trim(Tail(text))
    ELSE IF text[Len(text)] = WhiteSpace THEN Trim(SubSeq(text, 1, Len(text) - 1))
    ELSE text

SyntaxError == [syntaxError |-> TRUE]

\* JSON.parse: the value of a text that is one JSON text; a SyntaxError for the
\* empty text, for text that is not JSON and for text around or after a JSON text
JsonParse(text) ==
    IF Len(text) = 1 /\ "json" \in DOMAIN text[1] THEN text[1].json ELSE SyntaxError

\* Array.isArray
IsArray(value) == "array" \in DOMAIN value

\* parseGeminiResponse letting the parse failure out
ParseGeminiResponseOrThrow(responseText) ==
    LET parsed == JsonParse(Trim(StripFences(responseText))) IN
    IF parsed = SyntaxError \/ ~IsArray(parsed) THEN [threw |-> TRUE, data |-> <<>>]
    ELSE [threw |-> FALSE, data |-> parsed.array]

\* parseGeminiResponse: the parsed array; [] when JSON.parse throws or the value
\* is not an array
ParseGeminiResponse(responseText) ==
    LET parsed == JsonParse(Trim(StripFences(responseText))) IN
    IF parsed = SyntaxError \/ ~IsArray(parsed) THEN [threw |-> FALSE, data |-> <<>>]
    ELSE [threw |-> FALSE, data |-> parsed.array]

\* promotionsData.map(createPromotionObject), from element i on: it throws when
\* an element does
RECURSIVE MapCreate(_, _, _, _, _)
MapCreate(data, i, posts, marketName, now) ==
    IF i > Len(data) THEN [threw |-> FALSE, promotions |-> <<>>]
    ELSE LET c == CreatePromotionObject(data[i], posts, marketName, now) IN
         IF c.threw THEN [threw |-> TRUE, promotions |-> <<>>]
         ELSE LET rest == MapCreate(data, i + 1, posts, marketName, now) IN
              IF rest.threw THEN rest
              ELSE [threw |-> FALSE, promotions |-> <<c.promotion>> \o rest.promotions]

\* the call of generateContent rejected
CallFailed == [failed |-> TRUE]

\* a response without text
NoText == [notext |-> TRUE]

\* processMarketPosts after the call: its candidates, or threw (the call
\* rejected; the response has no text; an element could not be converted)
ProcessMarketPosts(marketName, posts, response, now) ==
    IF response = CallFailed \/ response = NoText
    THEN [threw |-> TRUE, promotions |-> <<>>]
    ELSE LET parsed == ParseGeminiResponse(response.text) IN
         IF parsed.threw THEN [threw |-> TRUE, promotions |-> <<>>]
         ELSE MapCreate(parsed.data, 1, posts, marketName, now)

(***************************************************************************)
(* The responses of the model                                              *)
(***************************************************************************)
Date15 == Str(<<"1","5","/","0","1","/","2","0","2","5">>)

Date20 == Str(<<"2","0","/","0","1","/","2","0","2","5">>)

Date21 == Str(<<"2","1","/","0","1","/","2","0","2","5">>)

\* dates that are not DD/MM/YYYY: ISO order with dashes, words, empty
DateIso == Str(<<"2","0","2","5","-","0","1","-","1","5">>)

DateWords == Str(<<"h","o","j","e">>)

DateEmpty == Str(<<>>)

WellFormedDates == {Date15, Date20, Date21}

MalformedDates == {DateIso, DateWords, DateEmpty}

ResponsePost(c) == [postCode |-> c, products |-> [array |-> <<GeminiProduct>>]]

PromoData(startDate, endDate, c) ==
    [startDate |-> startDate, endDate |-> endDate,
     posts |-> [array |-> <<ResponsePost(c)>>]]

\* the elements of the arrays: well-formed windows, a missing date, both
\* missing, a malformed date, no posts, null
PromoDatas ==
    {PromoData(Date15, Date20, "p1"), PromoData(Date15, Date21, "p2"),
     PromoData(Undefined, Date20, "p1"), PromoData(Undefined, Undefined, "p2"),
     PromoData(DateIso, Date20, "p1"), PromoData(Date15, DateWords, "p1"),
     PromoData(DateEmpty, DateEmpty, "p2"),
     [startDate |-> Date15, endDate |-> Date20, posts |-> Undefined],
     JsonNull}

JsonArray(elements) == [json |-> [array |-> elements]]

\* the arrays: empty, of one element, and of a well-formed element before or
\* after another element
JsonArrays ==
    {JsonArray(<<>>)}
        \cup {JsonArray(<<e>>) : e \in PromoDatas}
        \cup {JsonArray(<<PromoData(Date15, Date20, "p1"), e>>) : e \in PromoDatas}
        \cup {JsonArray(<<e, PromoData(Date15, Date20, "p1")>>) : e \in PromoDatas}

JsonObject == [json |-> [object |-> "promotions"]]

\* responses that are a JSON array, bare or in a code fence
ArrayResponses ==
    {[text |-> <<a>>] : a \in JsonArrays}
        \cup {[text |-> <<FenceJson, WhiteSpace, a, WhiteSpace, Fence>>] : a \in JsonArrays}

\* responses that are not JSON, or JSON that is not an array, after the fences
\* are stripped
UnparsableResponses ==
    {[text |-> <<>>],
     [text |-> <<Prose>>],
     [text |-> <<Prose, WhiteSpace, JsonArray(<<PromoData(Date15, Date20, "p1")>>)>>],
     [text |-> <<FenceJson, WhiteSpace, Prose, WhiteSpace, Fence>>],
     [text |-> <<JsonObject>>],
     [text |-> <<Fence, WhiteSpace, JsonObject, WhiteSpace, Fence>>],
     [text |-> <<JsonArray(<<>>), JsonArray(<<>>)>>]}

ModelResponses ==
    ArrayResponses \cup UnparsableResponses \cup {CallFailed, NoText}

(***************************************************************************)
(* GeminiService.execute, market by market                                 *)
(***************************************************************************)
\* the posts the vision stage hands over: promotional posts of two markets, a
\* post that is not promotional, and a post without text
ExtractPosts ==
    {[postId |-> "1001", postCode |-> "p1", marketName |-> "Atacadao",
      combinedText |-> AppendText(<<>>, TxtPrice), isPromotionPost |-> TRUE],
     [postId |-> "1002", postCode |-> "p2", marketName |-> "Bompreco",
      combinedText |-> AppendText(<<>>, TxtSemana), isPromotionPost |-> TRUE],
     [postId |-> "1003", postCode |-> "p2", marketName |-> "Atacadao",
      combinedText |-> AppendText(<<>>, TxtOferta), isPromotionPost |-> FALSE],
     [postId |-> "1004", postCode |-> "p1", marketName |-> "Bompreco",
      combinedText |-> <<>>, isPromotionPost |-> FALSE]}

MaxExtractPosts == 2

NewExtractResult ==
    [success |-> FALSE, processedPosts |-> 0, promotions |-> <<>>,
     totalPromotions |-> 0, errors |-> 0]

ExtractInit ==
    /\ visionResults \in SeqsUpTo(ExtractPosts, MaxExtractPosts)
    /\ extractPc = "idle"
    /\ pending = <<>>
    /\ calls = <<>>
    /\ extractResult = NewExtractResult
    /\ marketLog = <<>>

\* execute up to its loop: the filter, the early return when no post is left,
\* the grouping by market
StartExtract ==
    /\ extractPc = "idle"
    /\ LET promotionPosts == PromotionPostsOf(visionResults) IN
       IF promotionPosts = <<>>
       THEN /\ extractPc' = "done"
            /\ extractResult' = [extractResult EXCEPT !.success = TRUE]
            /\ UNCHANGED pending
       ELSE /\ extractPc' = "markets"
            /\ pending' = GroupPostsByMarket(promotionPosts)
            /\ UNCHANGED extractResult
    /\ UNCHANGED <<visionResults, calls, marketLog>>

\* a loop that stays on a market whose processing threw
NextPendingRetry(entries, threw) == IF threw THEN entries ELSE Tail(entries)

\* for (const [marketName, posts] of Object.entries(postsByMarket)): the next
\* iteration takes the next entry, whether or not this one threw
NextPending(entries, threw) == Tail(entries)

\* one iteration of the loop of execute: processMarketPosts, with the response
\* the model gives to the one generateContent call
ProcessMarket(response) ==
    /\ extractPc = "markets"
    /\ pending # <<>>
    /\ LET marketName == pending[1].marketName
           r == ProcessMarketPosts(marketName, pending[1].posts, response, today)
       IN  /\ calls' = Append(calls, marketName)
           /\ marketLog' = Append(marketLog, [marketName |-> marketName,
                                              posts      |-> pending[1].posts,
                                              response   |-> response,
                                              threw      |-> r.threw,
                                              promotions |-> r.promotions])
           /\ extractResult' =
                  IF r.threw
                  THEN [extractResult EXCEPT !.errors = @ + 1]
                  ELSE [extractResult EXCEPT
                            !.promotions = @ \o r.promotions,
                            !.processedPosts = @ + Len(pending[1].posts)]
           /\ pending' = NextPending(pending, r.threw)
    /\ UNCHANGED <<visionResults, extractPc>>

\* execute after its loop: the period merger and the final fields
FinishExtract ==
    /\ extractPc = "markets"
    /\ pending = <<>>
    /\ extractPc' = "done"
    /\ LET all == extractResult.promotions
           r == GroupPromotionsByPeriod(all, [i \in 1..Len(all) |-> i])
           promotions == Deref(r.heap, r.out)
       IN  extractResult' = [extractResult EXCEPT
                                !.promotions = promotions,
                                !.totalPromotions = Len(promotions),
                                !.success = extractResult.processedPosts > 0]
    /\ UNCHANGED <<visionResults, pending, calls, marketLog>>


\* runGeminiProcessing: if (!result.success) throw new Error('Gemini processing
\* failed'), the one place where the stage's outcome fails the run
GeminiProcessingFailed(res) == ~res.success
(***************************************************************************)
(* EmailService: the notifier, and the pipeline runs that feed it          *)
(***************************************************************************)
FirstDay == 14

LastDay == 22

MaxReports == 2

\* getActivePromotions: the Promotion rows with startDate <= today <= endDate
GetActivePromotions(st, day) ==
    SelectSeq(st.promotions, LAMBDA p : p.startDate <= day /\ day <= p.endDate)

\* the candidate lists of the pipeline runs: one candidate of one post
PipelineLists ==
    {<<[marketName |-> "Atacadao", startDate |-> w[1], endDate |-> w[2],
        posts |-> <<[postCode |-> c, products |-> <<GeminiProduct>>]>>]>> :
        w \in Windows, c \in PostCodes}

NotifyInit ==
    /\ store = EmptyStore
    /\ today = FirstDay
    /\ reports = <<>>
    /\ emailResult = None

\* the persistence step of a pipeline run
RunSavePromotions(promotions) ==
    /\ store' = SaveGeminiResults(store, promotions).store
    /\ UNCHANGED <<today, reports, emailResult>>

\* sendActivePromotions: no email when nothing is active today; else one email
\* listing every active promotion, unless the transport fails (it throws)
SendActivePromotions(transportOk) ==
    /\ Len(reports) < MaxReports
    /\ LET activePromotions == GetActivePromotions(store, today) IN
       IF activePromotions = <<>>
       THEN /\ emailResult' = [success |-> TRUE, totalPromotions |-> 0, emailsSent |-> 0]
            /\ UNCHANGED reports
       ELSE IF transportOk
       THEN /\ reports' = Append(reports, {p.id : p \in Range(activePromotions)})
            /\ emailResult' = [success |-> TRUE,
                               totalPromotions |-> Len(activePromotions),
                               emailsSent |-> 1]
       ELSE /\ emailResult' = [success |-> FALSE,
                               totalPromotions |-> Len(activePromotions),
                               emailsSent |-> 0]
            /\ UNCHANGED reports
    /\ UNCHANGED <<store, today>>

\* midnight
NextDay ==
    /\ today < LastDay
    /\ today' = today + 1
    /\ UNCHANGED <<store, reports, emailResult>>

(***************************************************************************)
(* SavePromotionService taken one store call at a time: runs that crash,   *)
(* runs that interleave, inserts that fail                                 *)
(***************************************************************************)
\* the persister runs there may be at a time
Runs == {"A", "B"}

IdleProc ==
    [pc |-> "idle", k |-> 0, i |-> 0, j |-> 0, promotionId |-> 0, postId |-> 0]

\* the loop of saveGeminiResults comes to candidate k, or past the last to
\* its return
ToCandidate(proc, k) ==
    IF k > Len(input)
    THEN [IdleProc EXCEPT !.pc = "done", !.k = k]
    ELSE [IdleProc EXCEPT !.pc = "findPromotion", !.k = k]

\* the post loop of savePromotion comes to post i, or past the last to its
\* return
ToPost(proc, i) ==
    IF i > Len(input[proc.k].posts)
    THEN ToCandidate(proc, proc.k + 1)
    ELSE [proc EXCEPT !.pc = "findPost", !.i = i, !.j = 0, !.postId = 0]

\* the product loop of savePost comes to product j, or past the last to its
\* return
ToProduct(proc, j) ==
    IF j > Len(input[proc.k].posts[proc.i].products)
    THEN ToPost(proc, proc.i + 1)
    ELSE [proc EXCEPT !.pc = "saveProduct", !.j = j]

\* a savePromotion that throws: the catch in the loop of saveGeminiResults,
\* which goes on to the next candidate
PromotionFailed(proc) == ToCandidate(proc, proc.k + 1)

\* a savePost that throws and is not caught in the post loop
PostFailureLeavesPromotion(proc) == PromotionFailed(proc)

\* a savePost that throws: the catch in the post loop, which goes on to the
\* next post
PostFailed(proc) == ToPost(proc, proc.i + 1)

\* a saveProduct that throws: the catch in the product loop, which goes on to
\* the next product
ProductFailed(proc) == ToProduct(proc, proc.j + 1)

\* the store call made at the place the run is at
Call(op, proc, ok) == [op |-> op, k |-> proc.k, i |-> proc.i, j |-> proc.j, ok |-> ok]

\* the unique constraint of Post.postCode: the insert of a second row with
\* the code is refused
PostCodeTaken(st, postCode) ==
    \E r \in 1..Len(st.posts) : st.posts[r].postCode = postCode

\* savePost given a post that exists moves it to the promotion at hand
PostExistsMoved(st, existingPost, promotionId) ==
    [st EXCEPT !.posts =
        [r \in 1..Len(@) |->
            IF @[r].id = existingPost.id THEN [@[r] EXCEPT !.promotionId = promotionId]
            ELSE @[r]]]

\* savePost given a post that exists: it returns and the store is as it was
PostExists(st, existingPost, promotionId) == st

\* the store with the new Post row
InsertPost(st, geminiPost, promotionId) ==
    [st EXCEPT !.posts = Append(@, [id          |-> NextId(st.posts),
                                    postCode    |-> geminiPost.postCode,
                                    promotionId |-> promotionId])]

\* candidates of at most two posts and two products
StepPosts ==
    {<<[postCode |-> "p1", products |-> <<GeminiProduct, GeminiProduct>>]>>,
     <<[postCode |-> "p1", products |-> <<GeminiProduct>>],
       [postCode |-> "p2", products |-> <<GeminiProduct>>]>>,
     <<[postCode |-> "p2", products |-> <<>>]>>}

StepCandidates ==
    {[marketName |-> m, startDate |-> w[1], endDate |-> w[2], posts |-> posts] :
        m \in {"Atacadao", UnknownMarket}, w \in Windows, posts \in StepPosts}

MaxStepCandidates == 2

MaxCrashes == 1

MaxFailures == 2

StepInit ==
    /\ input \in SeqsUpTo(StepCandidates, MaxStepCandidates)
    /\ store = EmptyStore
    /\ procs = [p \in Runs |-> IdleProc]
    /\ trace = {}

\* saveGeminiResults is called
Start(p) ==
    /\ procs[p].pc = "idle"
    /\ procs' = [procs EXCEPT ![p] = ToCandidate(IdleProc, 1)]
    /\ UNCHANGED <<store, trace>>

\* savePromotion: findMarket, which throws when there is no Market row, and
\* findExistingPromotion; the Market table never changes, so the two reads
\* are one step
FindPromotionStep(p) ==
    LET proc   == procs[p]
        c      == input[proc.k]
        market == FindMarket(store, c.marketName)
        found  == FindExistingPromotion(store, market.id, c.startDate, c.endDate)
    IN  /\ proc.pc = "findPromotion"
        /\ procs' = [procs EXCEPT ![p] =
              IF market = None THEN PromotionFailed(proc)
              ELSE IF found # None THEN ToPost([proc EXCEPT !.promotionId = found.id], 1)
              ELSE [proc EXCEPT !.pc = "createPromotion"]]
        /\ trace' = trace \cup {Call("findPromotion", proc, market # None)}
        /\ UNCHANGED store

\* savePromotion: createPromotion, one insert
CreatePromotionStep(p, fails) ==
    LET proc == procs[p]
        c    == input[proc.k]
    IN  /\ proc.pc = "createPromotion"
        /\ fails => Cardinality({e \in trace : ~e.ok /\ e.op # "crash"}) < MaxFailures
        /\ store' = IF fails THEN store
                    ELSE CreatePromotion(store, c, FindMarket(store, c.marketName))
        /\ procs' = [procs EXCEPT ![p] =
              IF fails THEN PromotionFailed(proc)
              ELSE ToPost([proc EXCEPT !.promotionId = NextId(store.promotions)], 1)]
        /\ trace' = trace \cup {Call("createPromotion", proc, ~fails)}

\* savePost: the lookup of the post by its code
FindPostStep(p) ==
    LET proc == procs[p]
        geminiPost == input[proc.k].posts[proc.i]
        existingPost == FindPost(store, geminiPost.postCode)
    IN  /\ proc.pc = "findPost"
        /\ procs' = [procs EXCEPT ![p] =
              IF existingPost # None
              THEN ToPost(proc, proc.i + 1)
              ELSE [proc EXCEPT !.pc = "insertPost"]]
        /\ trace' = trace \cup {Call("findPost", proc, TRUE)}
        /\ store' = IF existingPost # None
                    THEN PostExists(store, existingPost, proc.promotionId)
                    ELSE store

\* savePost: the insert of the Post row, which the store refuses when the
\* code was inserted since the lookup
InsertPostStep(p, fails) ==
    LET proc == procs[p]
        geminiPost == input[proc.k].posts[proc.i]
        refused == fails \/ PostCodeTaken(store, geminiPost.postCode)
    IN  /\ proc.pc = "insertPost"
        /\ fails => Cardinality({e \in trace : ~e.ok /\ e.op # "crash"}) < MaxFailures
        /\ store' = IF refused THEN store
                    ELSE InsertPost(store, geminiPost, proc.promotionId)
        /\ procs' = [procs EXCEPT ![p] =
              IF refused THEN PostFailed(proc)
              ELSE ToProduct([proc EXCEPT !.postId = NextId(store.posts)], 1)]
        /\ trace' = trace \cup {Call("insertPost", proc, ~refused)}

\* savePost: saveProduct for one product, one insert
SaveProductStep(p, fails) ==
    LET proc == procs[p]
        geminiProduct == input[proc.k].posts[proc.i].products[proc.j]
    IN  /\ proc.pc = "saveProduct"
        /\ fails => Cardinality({e \in trace : ~e.ok /\ e.op # "crash"}) < MaxFailures
        /\ store' = IF fails THEN store
                    ELSE SaveProduct(store, geminiProduct, proc.postId)
        /\ procs' = [procs EXCEPT ![p] =
              IF fails THEN ProductFailed(proc) ELSE ToProduct(proc, proc.j + 1)]
        /\ trace' = trace \cup {Call("saveProduct", proc, ~fails)}

\* the process of the run dies between two store calls
Crash(p) ==
    /\ procs[p].pc \notin {"idle", "done", "crashed"}
    /\ Cardinality({e \in trace : e.op = "crash"}) < MaxCrashes
    /\ procs' = [procs EXCEPT ![p] = [IdleProc EXCEPT !.pc = "crashed"]]
    /\ trace' = trace \cup {Call("crash", procs[p], FALSE)}
    /\ UNCHANGED store

\* the pipeline is run again on the same list
Restart(p) ==
    /\ procs[p].pc = "crashed"
    /\ procs' = [procs EXCEPT ![p] = ToCandidate(IdleProc, 1)]
    /\ UNCHANGED <<store, trace>>


(***************************************************************************)
(* The three stages on one batch: VisionService.execute post by post, then *)
(* GeminiService.execute on its results, then saveGeminiResults on the      *)
(* extractor's result                                                      *)
(***************************************************************************)
\* the posts of the batch: what the scraper knows of each and how many images
\* it has
BatchPosts ==
    <<[postId |-> "1001", postCode |-> "p1", marketName |-> "Atacadao", images |-> 2],
      [postId |-> "1002", postCode |-> "p2", marketName |-> "Bompreco", images |-> 1],
      [postId |-> "1003", postCode |-> "p3", marketName |-> UnknownMarket, images |-> 1],
      [postId |-> "1004", postCode |-> "p4", marketName |-> "Atacadao", images |-> 1]>>

\* what processImage returns for an image of the batch: a text with a price, a
\* text that is white space, or a failure
BatchOcrResults ==
    {[success |-> TRUE, text |-> TxtPrice], [success |-> TRUE, text |-> TxtSpace],
     OcrFailed}

\* what the model answers to a prompt of the batch: no answer, one without
\* text, arrays of a null, of one promotion and of another, and prose
BatchResponses ==
    {CallFailed, NoText, [text |-> <<JsonArray(<<JsonNull>>)>>],
     [text |-> <<JsonArray(<<PromoData(Date15, Date20, "p1")>>)>>],
     [text |-> <<JsonArray(<<PromoData(Date15, Date21, "p2")>>)>>],
     [text |-> <<Prose>>]}

NewVisionResult ==
    [success |-> FALSE, processedPosts |-> 0, processedImages |-> 0,
     promotionPosts |-> 0, results |-> <<>>]

NoPost == None

\* a stage result that counts as a success only when every post succeeded
VisionSuccessAll(res) == res.processedPosts = Len(res.results)

\* execute: result.success = result.processedPosts > 0
VisionSuccess(res) == res.processedPosts > 0

\* runVisionProcessing: if (!result.success) throw new Error('Vision
\* processing failed'), which ends the run before the extraction stage
VisionProcessingFailed(res) == ~res.success

\* the loop body of execute after processPost returned: the post's result is
\* pushed and, when the post succeeded, counted
CollectPostResult(res, post, postOcr) ==
    LET pushed == [res EXCEPT
                      !.results = Append(@, [postId          |-> post.postId,
                                             postCode        |-> post.postCode,
                                             marketName      |-> post.marketName,
                                             combinedText    |-> postOcr.combinedText,
                                             isPromotionPost |-> postOcr.isPromotionPost,
                                             processedImages |-> postOcr.processedImages,
                                             success         |-> postOcr.success])]
    IN  IF ~postOcr.success THEN pushed
        ELSE [pushed EXCEPT
                 !.processedPosts = @ + 1,
                 !.processedImages = @ + postOcr.processedImages,
                 !.promotionPosts = IF postOcr.isPromotionPost THEN @ + 1 ELSE @]

OutcomeInit ==
    /\ VisionInit
    /\ visionPc = "posts"
    /\ currentPost = NoPost
    /\ imageLog = <<>>
    /\ visionResult = NewVisionResult

\* for (const post of posts): processPost is entered for the next post
BeginPost ==
    /\ visionPc = "posts"
    /\ Len(visionResult.results) < Len(BatchPosts)
    /\ currentPost' = BatchPosts[Len(visionResult.results) + 1]
    /\ imageLog' = Append(imageLog, <<>>)
    /\ visionPc' = "images"
    /\ UNCHANGED <<visionVars, visionResult>>

\* processPost: the next image of the post
BatchImage(ocr) ==
    /\ visionPc = "images"
    /\ Len(imageLog[Len(imageLog)]) < currentPost.images
    /\ ProcessImage(ocr)
    /\ imageLog' = [imageLog EXCEPT ![Len(imageLog)] = Append(@, ocr.success)]
    /\ UNCHANGED <<visionPc, currentPost, visionResult>>

\* processPost after its last image: the classification and the return
BatchFinishPost ==
    /\ visionPc = "images"
    /\ Len(imageLog[Len(imageLog)]) = currentPost.images
    /\ FinishPost
    /\ visionPc' = "collect"
    /\ UNCHANGED <<currentPost, imageLog, visionResult>>

\* execute: the rest of the loop body
CollectPost ==
    /\ visionPc = "collect"
    /\ visionResult' = CollectPostResult(visionResult, currentPost, postResult)
    /\ currentPost' = NoPost
    /\ visionPc' = "posts"
    /\ UNCHANGED <<visionVars, imageLog>>

\* execute after its loop
FinishVision ==
    /\ visionPc = "posts"
    /\ Len(visionResult.results) = Len(BatchPosts)
    /\ visionResult' = [visionResult EXCEPT !.success = VisionSuccess(visionResult)]
    /\ visionPc' = "done"
    /\ UNCHANGED <<visionVars, currentPost, imageLog>>

\* runGeminiProcessing(visionResult.results), reached when the OCR stage did
\* not fail the run: the extractor is given the results
HandToExtractor ==
    /\ visionPc = "done"
    /\ ~VisionProcessingFailed(visionResult)
    /\ visionResults = <<>>
    /\ extractPc = "idle"
    /\ visionResults' = visionResult.results
    /\ visionPc' = "handed"

\* runSavePromotions(geminiResult), reached when the extraction stage did not
\* fail the run: the persister is given the merged candidates, unless there is
\* none
HandToPersister ==
    /\ extractPc = "done"
    /\ ~GeminiProcessingFailed(extractResult)
    /\ extractResult.promotions # <<>>
    /\ runs = 0
    /\ input = <<>>
    /\ input' = extractResult.promotions

(***************************************************************************)
(* LambdaHandler.execute, one step at a time, over the invocations of one  *)
(* container: the database connection is a module-level singleton          *)
(***************************************************************************)
MaxInvocations == 3

NoResponse == None

Step(name, completed) == [step |-> name, ok |-> completed]

\* validateConfig: throws when config.database.database is empty
ValidateConfigThrows(databasePath) == databasePath = ""

\* an initializeDatabase whose failure is only logged
InitializeDatabaseSwallows(initialized, connects) == FALSE

\* DatabaseConnection.initialize under LambdaHandler.initializeDatabase: the
\* data source is initialized unless it already is; a failure is rethrown by
\* both
InitializeDatabaseThrows(initialized, connects) == ~initialized /\ ~connects

\* DatabaseConnection.close: destroy is called on an initialized data source;
\* one that fails leaves it initialized
IsInitializedAfterClose(initialized, destroys) == initialized /\ ~destroys

\* DatabaseConnection.close: the failure of destroy is caught and logged
CloseThrows(initialized, destroys) == FALSE

\* cleanup: whatever closeDatabase throws is caught and logged
CleanupThrows(closeThrew) == FALSE

\* return { statusCode: 200, ... } at the end of the try block
Success == [statusCode |-> 200]

\* handleError: the response of the catch block
HandleError == [statusCode |-> 500]

Invocations(log) == Len(SelectSeq(log, LAMBDA s : s.step = "execute"))

HandlerInit ==
    /\ handlerPc = "idle"
    /\ lambdaResponse = NoResponse
    /\ isInitialized = FALSE
    /\ handlerLog = <<>>

\* handler(event, context): a new LambdaHandler, and its execute is entered
Execute ==
    /\ handlerPc \in {"idle", "returned"}
    /\ Invocations(handlerLog) < MaxInvocations
    /\ handlerPc' = "validateConfig"
    /\ lambdaResponse' = NoResponse
    /\ handlerLog' = Append(handlerLog, Step("execute", TRUE))
    /\ UNCHANGED isInitialized

\* execute: this.validateConfig(), with the database path of the configuration
ValidateConfig(databasePath) ==
    /\ handlerPc = "validateConfig"
    /\ handlerLog' = Append(handlerLog,
                            Step("validateConfig", ~ValidateConfigThrows(databasePath)))
    /\ IF ValidateConfigThrows(databasePath)
       THEN handlerPc' = "cleanup" /\ lambdaResponse' = HandleError
       ELSE handlerPc' = "initializeDatabase" /\ UNCHANGED lambdaResponse
    /\ UNCHANGED isInitialized

\* execute: await this.initializeDatabase(), the store accepting the connection
\* or not
InitializeDatabase(connects) ==
    /\ handlerPc = "initializeDatabase"
    /\ handlerLog' = Append(handlerLog,
                            Step("initializeDatabase", isInitialized \/ connects))
    /\ isInitialized' = (isInitialized \/ connects)
    /\ IF InitializeDatabaseThrows(isInitialized, connects)
       THEN handlerPc' = "cleanup" /\ lambdaResponse' = HandleError
       ELSE handlerPc' = "executeMainLogic" /\ UNCHANGED lambdaResponse

\* execute: await this.executeMainLogic(), which logs two lines, and the return
\* statement of the try block
ExecuteMainLogic ==
    /\ handlerPc = "executeMainLogic"
    /\ handlerLog' = Append(handlerLog, Step("executeMainLogic", TRUE))
    /\ lambdaResponse' = Success
    /\ handlerPc' = "cleanup"
    /\ UNCHANGED isInitialized

\* execute: the finally block, await this.cleanup(), the store closing the
\* connection or failing to; then execute returns the response, or throws when
\* cleanup did
Cleanup(destroys) ==
    /\ handlerPc = "cleanup"
    /\ handlerLog' = Append(handlerLog,
                            Step("cleanup", ~isInitialized \/ destroys))
    /\ isInitialized' = IsInitializedAfterClose(isInitialized, destroys)
    /\ IF CleanupThrows(CloseThrows(isInitialized, destroys))
       THEN handlerPc' = "threw" /\ lambdaResponse' = NoResponse
       ELSE handlerPc' = "returned" /\ UNCHANGED lambdaResponse
(***************************************************************************)
(* Specifications: one per stage; the other stages' state stays as         *)
(* constructed                                                             *)
(***************************************************************************)
VisionIdle ==
    /\ lastIndex = [k \in 1..NumPatterns |-> 0]
    /\ combinedText = <<>>
    /\ processedImages = 0
    /\ lastCall = None
    /\ postResult = None

GeminiIdle ==
    /\ visionResults = <<>>
    /\ marketBlocks = <<>>
    /\ geminiDone = FALSE

PersistIdle ==
    /\ store = EmptyStore
    /\ pc = "idle"
    /\ promotion = 0
    /\ firstSeen = [c \in PostCodes |-> None]

RerunIdle ==
    /\ input = <<>>
    /\ runs = 0
    /\ result = NoResult
    /\ storeBefore = EmptyStore

NotifyIdle ==
    /\ today = FirstDay
    /\ reports = <<>>
    /\ emailResult = None

MergeIdle ==
    /\ heap = <<>>
    /\ merged = None
    /\ mergeLog = <<>>

ExtractIdle ==
    /\ extractPc = "idle"
    /\ pending = <<>>
    /\ calls = <<>>
    /\ extractResult = NewExtractResult
    /\ marketLog = <<>>

\* the state of the stages added after the first five
laterVars == <<mergeVars, extractVars, stepVars, batchVars, handlerVars>>

StepIdle ==
    /\ procs = [p \in Runs |-> IdleProc]
    /\ trace = {}

BatchIdle ==
    /\ visionPc = "idle"
    /\ currentPost = NoPost
    /\ imageLog = <<>>
    /\ visionResult = NewVisionResult

LaterIdle == MergeIdle /\ ExtractIdle /\ StepIdle /\ BatchIdle /\ HandlerInit

vars == <<visionVars, geminiVars, persistVars, rerunVars, notifyVars, laterVars>>

\* the OCR stage: VisionService.execute over a batch of posts
VisionNext ==
    /\ \/ \E ocr \in OcrResults : ProcessImage(ocr)
       \/ FinishPost
    /\ UNCHANGED <<geminiVars, persistVars, rerunVars, notifyVars, laterVars>>

InitVision == VisionInit /\ GeminiIdle /\ PersistIdle /\ RerunIdle /\ NotifyIdle /\ LaterIdle

SpecVision == InitVision /\ [][VisionNext]_vars

\* the extraction stage: GeminiService.execute on a list of vision results
GeminiNext ==
    /\ GeminiExecute
    /\ UNCHANGED <<visionVars, persistVars, rerunVars, notifyVars, laterVars>>

InitGemini == GeminiInit /\ VisionIdle /\ PersistIdle /\ RerunIdle /\ NotifyIdle /\ LaterIdle

SpecGemini == InitGemini /\ [][GeminiNext]_vars

\* the persistence stage over any sequence of runs
PersistNext ==
    /\ \/ BeginRun
       \/ \E m \in CandidateMarkets, w \in Windows : BeginPromotion(m, w)
       \/ \E p \in GeminiPosts : SavePostStep(p)
       \/ EndPromotion
       \/ EndRun
    /\ UNCHANGED <<visionVars, geminiVars, rerunVars, notifyVars, laterVars>>

InitPersist == PersistInit /\ VisionIdle /\ GeminiIdle /\ RerunIdle /\ NotifyIdle /\ LaterIdle

SpecPersist == InitPersist /\ [][PersistNext]_vars

\* the persistence stage of pipeline runs that hand it the same candidate list
RerunNext ==
    /\ \/ \E h \in ListHeaders : ExtractPromotion(h[1], h[2])
       \/ \E c \in PostCodes : ExtractPost(c)
       \/ ExtractProduct
       \/ RunPersister
    /\ UNCHANGED <<visionVars, geminiVars, pc, promotion, firstSeen, notifyVars, laterVars>>

InitRerun ==
    /\ RerunInit
    /\ pc = "idle"
    /\ promotion = 0
    /\ firstSeen = [c \in PostCodes |-> None]
    /\ VisionIdle
    /\ GeminiIdle
    /\ NotifyIdle
    /\ LaterIdle

SpecRerun == InitRerun /\ [][RerunNext]_vars

\* pipeline runs over the days: each persists its candidates, then notifies
NotifyNext ==
    /\ \/ \E l \in PipelineLists : RunSavePromotions(l)
       \/ \E ok \in BOOLEAN : SendActivePromotions(ok)
       \/ NextDay
    /\ UNCHANGED <<visionVars, geminiVars, pc, promotion, firstSeen, rerunVars, laterVars>>

InitNotify ==
    /\ NotifyInit
    /\ pc = "idle"
    /\ promotion = 0
    /\ firstSeen = [c \in PostCodes |-> None]
    /\ RerunIdle
    /\ VisionIdle
    /\ GeminiIdle
    /\ LaterIdle

SpecNotify == InitNotify /\ [][NotifyNext]_vars

\* the period merger applied to the extractor's list, and again
MergeNext ==
    /\ \/ MergeList
       \/ MergeMerged
    /\ UNCHANGED <<visionVars, geminiVars, persistVars, rerunVars, notifyVars, extractVars,
                   stepVars, batchVars, handlerVars>>

InitMerge ==
    /\ MergeInit
    /\ VisionIdle /\ GeminiIdle /\ PersistIdle /\ RerunIdle /\ NotifyIdle
    /\ ExtractIdle /\ StepIdle /\ BatchIdle /\ HandlerInit

SpecMerge == InitMerge /\ [][MergeNext]_vars

\* the extraction stage: GeminiService.execute with the responses of the model
ExtractNext ==
    /\ \/ StartExtract
       \/ \E response \in ModelResponses : ProcessMarket(response)
       \/ FinishExtract
    /\ UNCHANGED <<visionVars, marketBlocks, geminiDone, persistVars, rerunVars,
                   notifyVars, mergeVars, stepVars, batchVars, handlerVars>>

InitExtract ==
    /\ ExtractInit
    /\ marketBlocks = <<>>
    /\ geminiDone = FALSE
    /\ VisionIdle /\ PersistIdle /\ RerunIdle /\ NotifyIdle /\ MergeIdle /\ StepIdle
    /\ BatchIdle /\ HandlerInit

SpecExtract == InitExtract /\ [][ExtractNext]_vars

\* the persistence stage given products with prices of every kind
PriceNext ==
    /\ RunPersister
    /\ UNCHANGED <<visionVars, geminiVars, pc, promotion, firstSeen, notifyVars, laterVars>>

InitPrice ==
    /\ PriceInit
    /\ pc = "idle"
    /\ promotion = 0
    /\ firstSeen = [c \in PostCodes |-> None]
    /\ VisionIdle /\ GeminiIdle /\ NotifyIdle /\ LaterIdle

SpecPrice == InitPrice /\ [][PriceNext]_vars

\* what a run taken one store call at a time leaves alone
StepFrame ==
    UNCHANGED <<visionVars, geminiVars, pc, promotion, firstSeen, input, runs, result,
                storeBefore, notifyVars, mergeVars, extractVars, batchVars,
                handlerVars>>

InitSteps ==
    /\ StepInit
    /\ pc = "idle"
    /\ promotion = 0
    /\ firstSeen = [c \in PostCodes |-> None]
    /\ runs = 0
    /\ result = NoResult
    /\ storeBefore = EmptyStore
    /\ VisionIdle /\ GeminiIdle /\ NotifyIdle /\ MergeIdle /\ ExtractIdle
    /\ BatchIdle /\ HandlerInit

\* one persister run that may crash between two store calls and is then run
\* again on the same list
CrashNext ==
    /\ \/ Start("A")
       \/ FindPromotionStep("A")
       \/ CreatePromotionStep("A", FALSE)
       \/ FindPostStep("A")
       \/ InsertPostStep("A", FALSE)
       \/ SaveProductStep("A", FALSE)
       \/ Crash("A")
       \/ Restart("A")
    /\ StepFrame

SpecCrash == InitSteps /\ [][CrashNext]_vars

\* two persister runs on the same list, interleaved store call by store call
ConcurrentNext ==
    /\ \E p \in Runs :
          \/ Start(p)
          \/ FindPromotionStep(p)
          \/ CreatePromotionStep(p, FALSE)
          \/ FindPostStep(p)
          \/ InsertPostStep(p, FALSE)
          \/ SaveProductStep(p, FALSE)
    /\ StepFrame

SpecConcurrent == InitSteps /\ [][ConcurrentNext]_vars

\* one persister run in which inserts may fail
FailureNext ==
    /\ \/ Start("A")
       \/ FindPromotionStep("A")
       \/ \E fails \in BOOLEAN : CreatePromotionStep("A", fails)
       \/ FindPostStep("A")
       \/ \E fails \in BOOLEAN : InsertPostStep("A", fails)
       \/ \E fails \in BOOLEAN : SaveProductStep("A", fails)
    /\ StepFrame

SpecFailure == InitSteps /\ [][FailureNext]_vars


\* what the stages of a batch leave alone
BatchFrame == UNCHANGED <<notifyVars, mergeVars, stepVars, handlerVars, marketBlocks,
                          geminiDone, pc, promotion, firstSeen>>

\* the OCR stage on the posts of a batch, then the extraction stage on its
\* results, then the persistence stage on the merged candidates
OutcomeNext ==
    \/ /\ \/ BeginPost
          \/ \E ocr \in BatchOcrResults : BatchImage(ocr)
          \/ BatchFinishPost
          \/ CollectPost
          \/ FinishVision
       /\ UNCHANGED <<visionResults, extractVars, store, rerunVars>>
       /\ BatchFrame
    \/ /\ HandToExtractor
       /\ UNCHANGED <<visionVars, currentPost, imageLog, visionResult, extractVars,
                      store, rerunVars>>
       /\ BatchFrame
    \/ /\ visionPc = "handed"
       /\ \/ StartExtract
          \/ \E modelResponse \in BatchResponses : ProcessMarket(modelResponse)
          \/ FinishExtract
       /\ UNCHANGED <<visionVars, batchVars, store, rerunVars>>
       /\ BatchFrame
    \/ /\ HandToPersister
       /\ UNCHANGED <<visionVars, batchVars, visionResults, extractVars, store, runs,
                      result, storeBefore>>
       /\ BatchFrame
    \/ /\ input # <<>>
       /\ RunPersister
       /\ UNCHANGED <<visionVars, batchVars, visionResults, extractVars>>
       /\ BatchFrame

InitOutcome ==
    /\ OutcomeInit
    /\ GeminiIdle /\ PersistIdle /\ RerunIdle /\ NotifyIdle
    /\ MergeIdle /\ ExtractIdle /\ StepIdle /\ HandlerInit

SpecOutcome == InitOutcome /\ [][OutcomeNext]_vars

\* the invocations of the handler in one container
HandlerNext ==
    /\ \/ Execute
       \/ \E databasePath \in {"", "./data/db.sqlite"} : ValidateConfig(databasePath)
       \/ \E connects \in BOOLEAN : InitializeDatabase(connects)
       \/ ExecuteMainLogic
       \/ \E destroys \in BOOLEAN : Cleanup(destroys)
    /\ UNCHANGED <<visionVars, geminiVars, persistVars, rerunVars, notifyVars, mergeVars,
                   extractVars, stepVars, batchVars>>

InitHandler ==
    /\ VisionIdle /\ GeminiIdle /\ PersistIdle /\ RerunIdle /\ NotifyIdle
    /\ MergeIdle /\ ExtractIdle /\ StepIdle /\ BatchIdle /\ HandlerInit

SpecHandler == InitHandler /\ [][HandlerNext]_vars
(***************************************************************************)
(* The classifier's claims (SpecVision)                                    *)
(***************************************************************************)
\* PRICE_PATTERNS[k] matches somewhere in t
PatternMatches(k, t) == \E i \in 0..(Len(t) - 1) : MatchEnd(k, t, i) # NoMatch

\* the number of price-pattern matches in t is not zero
HasPriceMatch(t) == \E k \in 1..NumPatterns : PatternMatches(k, t)

\* the number of distinct keywords of the list occurring in the lower-cased t
KeywordHitCount(t) == Cardinality(KeywordHits(ToLowerCase(t)))

\* the decision rule: (keyword match AND price-pattern match) OR at least 3
\* distinct keyword hits
DecisionRule(t) ==
    (KeywordHitCount(t) >= 1 /\ HasPriceMatch(t)) \/ KeywordHitCount(t) >= 3

\* C6: on every call with a non-blank text, isPromotionCatalog returns true
\* exactly when the decision rule holds of the text.
C6_ClassifierFollowsDecisionRule ==
    (lastCall # None /\ ~IsBlank(lastCall.text))
        => (lastCall.result = DecisionRule(lastCall.text))

\* C7: processPost marks a post promotional exactly when the concatenation of
\* the texts of its OCR'd images satisfies the decision rule.
C7_PostFollowsDecisionRule ==
    postResult # None
        => (postResult.isPromotionPost
                = (~IsBlank(postResult.combinedText) /\ DecisionRule(postResult.combinedText)))

\* C8: a text with no price-pattern match and fewer than 3 keyword hits is
\* classified 'not a catalog', on every call.
C8_NoPriceFewKeywordsIsNotCatalog ==
    (lastCall # None /\ ~HasPriceMatch(lastCall.text) /\ KeywordHitCount(lastCall.text) < 3)
        => ~lastCall.result

\* C8 witness: a text with exactly 2 keyword hits and no price was classified
\* by a call that an earlier call had left a pattern's lastIndex to.
C8_Witness ==
    /\ lastCall # None
    /\ KeywordHitCount(lastCall.text) = 2
    /\ ~HasPriceMatch(lastCall.text)
    /\ ~lastCall.result
    /\ lastCall.stale

\* GeminiService.execute: the posts handed to the extractor
IsSentToExtractor(post) == post.isPromotionPost /\ ~IsBlank(post.combinedText)

\* C9: a blank text is classified 'not a catalog'; a post whose images yielded
\* no text is not promotional and is not sent to the extractor.
C9_BlankIsNotCatalog ==
    /\ (lastCall # None /\ IsBlank(lastCall.text)) => ~lastCall.result
    /\ (postResult # None /\ IsBlank(postResult.combinedText))
            => (~postResult.isPromotionPost /\ ~IsSentToExtractor(postResult))

\* C9 witness: a post whose images yielded only whitespace was classified.
C9_Witness ==
    /\ postResult # None
    /\ IsBlank(postResult.combinedText)
    /\ Len(postResult.combinedText) >= 3
    /\ ~postResult.isPromotionPost


\* C30: every call of isPromotionCatalog returns what a call with the same
\* text returns on a service that classified nothing before.
C30_ClassifierIsDeterministic ==
    lastCall # None =>
        lastCall.result
            = IsPromotionCatalog(lastCall.text, [k \in 1..NumPatterns |-> 0]).result

(***************************************************************************)
(* The aggregator's claims (SpecGemini)                                    *)
(***************************************************************************)
\* the (post code, text) pairs a block holds, read off its 'POST <code>:'
\* delimiters in the order they appear
DelimitedPosts(block) ==
    LET at == SelectSeq([i \in 1..Len(block) |-> i],
                        LAMBDA i : /\ block[i] = [lit |-> "POST "]
                                   /\ i + 3 <= Len(block)
                                   /\ block[i + 2] = [lit |-> ":\n"])
    IN  [n \in 1..Len(at) |->
            [postCode |-> block[at[n] + 1].code, combinedText |-> block[at[n] + 3].text]]

\* the promotional posts of market m in the order of the classifier stage's list
PromotionalOf(results, m) ==
    LET mine == SelectSeq(results,
                          LAMBDA r : r.marketName = m /\ r.isPromotionPost
                                     /\ ~IsBlank(r.combinedText))
    IN  [n \in 1..Len(mine) |->
            [postCode |-> mine[n].postCode, combinedText |-> mine[n].combinedText]]

\* C10: a market with N >= 1 promotional posts gets exactly one block, holding
\* for each of its posts the 'POST <code>:' delimiter followed by the post's
\* text, in list order, and nothing of another market's posts.
C10_OneOrderedBlockPerMarket ==
    geminiDone =>
        \A m \in MarketNames :
            LET blocks == {b \in 1..Len(marketBlocks) : marketBlocks[b].marketName = m}
                mine   == PromotionalOf(visionResults, m)
            IN  IF Len(mine) >= 1
                THEN /\ Cardinality(blocks) = 1
                     /\ \A b \in blocks :
                            DelimitedPosts(marketBlocks[b].combinedText) = mine
                ELSE blocks = {}

\* C10 witness: a market's block holds two posts, p2 before p1 as listed, and a
\* post of another market, listed between them, has a block of its own.
C10_Witness ==
    /\ geminiDone
    /\ Len(marketBlocks) = 2
    /\ \E b \in 1..Len(marketBlocks) :
           /\ Len(DelimitedPosts(marketBlocks[b].combinedText)) = 2
           /\ DelimitedPosts(marketBlocks[b].combinedText)[1].postCode = "p2"
           /\ DelimitedPosts(marketBlocks[b].combinedText)[2].postCode = "p1"
    /\ Len(visionResults) = 3
    /\ visionResults[2].marketName # visionResults[1].marketName

(***************************************************************************)
(* Properties of the persister                                             *)
(***************************************************************************)
\* the candidates of a list whose market has a Market row
Persistable(promotions) ==
    SelectSeq(promotions, LAMBDA c : \E i \in 1..Len(SeedMarkets) :
                                        SeedMarkets[i].name = c.marketName)

\* every candidate post of a list, in list order
RECURSIVE AllPosts(_)
AllPosts(promotions) ==
    IF promotions = <<>> THEN <<>>
    ELSE promotions[1].posts \o AllPosts(Tail(promotions))

DistinctKeys(promotions) ==
    {<<promotions[i].marketName, promotions[i].startDate, promotions[i].endDate>> :
        i \in 1..Len(promotions)}

DistinctCodes(posts) == {posts[i].postCode : i \in 1..Len(posts)}

\* the products of the first post of each code
RECURSIVE FirstProducts(_, _)
FirstProducts(posts, codes) ==
    IF codes = {} THEN 0
    ELSE LET c == CHOOSE x \in codes : TRUE
             first == SetMin({i \in 1..Len(posts) : posts[i].postCode = c})
         IN  Len(posts[first].products) + FirstProducts(posts, codes \ {c})

NoRowsCreated ==
    /\ result.savedPromotions = 0
    /\ result.savedPosts = 0
    /\ result.savedProducts = 0
    /\ store = storeBefore

\* C1: on a store that holds the markets, the first saveGeminiResults on a
\* candidate list creates one Promotion per distinct (market, startDate,
\* endDate), one Post per distinct post code and one Product per product of
\* each created post; every later run on the same list creates no row.
C1_RerunIsIdempotent ==
    LET known == Persistable(input)
        posts == AllPosts(known)
    IN  /\ runs = 1 =>
            /\ result.savedPromotions = Cardinality(DistinctKeys(known))
            /\ result.savedPosts = Cardinality(DistinctCodes(posts))
            /\ result.savedProducts = FirstProducts(posts, DistinctCodes(posts))
            /\ Len(store.promotions) = result.savedPromotions
            /\ Len(store.posts) = result.savedPosts
            /\ Len(store.products) = result.savedProducts
        /\ runs > 1 => NoRowsCreated

\* a candidate of two posts and three products was saved as 1 Promotion, 2 Posts
\* and 3 Products, and saved again
C1_Witness ==
    /\ runs = 2
    /\ Len(input) = 1
    /\ Len(input[1].posts) = 2
    /\ Len(store.promotions) = 1
    /\ Len(store.posts) = 2
    /\ Len(store.products) = 3
    /\ NoRowsCreated

\* C2: over any sequence of persister runs the store holds at most one
\* Promotion row per (marketId, startDate, endDate).
C2_OnePromotionPerKey ==
    \A i, j \in 1..Len(store.promotions) :
        (/\ store.promotions[i].marketId = store.promotions[j].marketId
         /\ store.promotions[i].startDate = store.promotions[j].startDate
         /\ store.promotions[i].endDate = store.promotions[j].endDate) => i = j

\* a candidate reused the Promotion row of an earlier candidate of its key,
\* while a newer row of the same market and start date exists
C2_Witness ==
    /\ pc = "posts"
    /\ promotion < Len(store.promotions)
    /\ \E j \in 1..Len(store.promotions) :
          /\ j > promotion
          /\ store.promotions[j].marketId = store.promotions[promotion].marketId
          /\ store.promotions[j].startDate = store.promotions[promotion].startDate

ProductsOfPost(postId) ==
    Cardinality({i \in 1..Len(store.products) : store.products[i].postId = postId})

\* C3: over any sequence of persister runs no two Post rows share a post code;
\* the Post row of a code belongs to the promotion of the first candidate post
\* of that code and has that post's products, and no others.
C3_PostCodeIsUnique ==
    /\ \A i, j \in 1..Len(store.posts) :
          store.posts[i].postCode = store.posts[j].postCode => i = j
    /\ \A c \in PostCodes :
          firstSeen[c] # None =>
              \E i \in 1..Len(store.posts) :
                  /\ store.posts[i].postCode = c
                  /\ store.posts[i].promotionId = firstSeen[c].promotionId
                  /\ ProductsOfPost(store.posts[i].id) = firstSeen[c].products
    /\ \A i \in 1..Len(store.posts) : firstSeen[store.posts[i].postCode] # None

\* a post code came again, in another promotion than the one that holds its
\* Post row, and with products while the first had none
C3_Witness ==
    /\ pc = "posts"
    /\ \E c \in PostCodes :
          /\ firstSeen[c] # None
          /\ firstSeen[c].again
          /\ firstSeen[c].products = 0
          /\ firstSeen[c].promotionId # promotion
    /\ store.products = <<>>

C24_PureRerunSucceeds ==
    (runs >= 1 /\ input # <<>> /\ result.errors = 0 /\ NoRowsCreated) =>
        (result.success /\ ~DatabaseSaveFailed(result))

\* C28: when the persister runs made so far have returned, every Promotion
\* row has at least one Post row.
C28_NoChildlessPromotion ==
    pc = "idle" =>
        \A i \in 1..Len(store.promotions) :
            \E j \in 1..Len(store.posts) :
                store.posts[j].promotionId = store.promotions[i].id

(***************************************************************************)
(* Properties of the notifier                                              *)
(***************************************************************************)
\* C5: no promotion is listed in two sent reports.
C5_ReportOnce ==
    \A i, j \in 1..Len(reports) : i # j => reports[i] \cap reports[j] = {}

(***************************************************************************)
(* Properties of the period merger                                         *)
(***************************************************************************)
\* the positions of a list whose key occurs at no earlier position
FirstOccurrences(promotions) ==
    {i \in 1..Len(promotions) :
        \A j \in 1..(i - 1) : PeriodKey(promotions[j]) # PeriodKey(promotions[i])}

\* the n-th smallest element of a set of numbers
RECURSIVE Nth(_, _)
Nth(S, n) == IF n = 1 THEN SetMin(S) ELSE Nth(S \ {SetMin(S)}, n - 1)

\* the posts, in list order, of the candidates of a key
RECURSIVE PostsOfKey(_, _)
PostsOfKey(promotions, key) ==
    IF promotions = <<>> THEN <<>>
    ELSE (IF PeriodKey(promotions[1]) = key THEN promotions[1].posts ELSE <<>>)
            \o PostsOfKey(Tail(promotions), key)

\* one entry per key in first-occurrence order, with all the posts of the key
MergedByPeriod(promotions) ==
    LET first == FirstOccurrences(promotions) IN
    [n \in 1..Cardinality(first) |->
        LET c == promotions[Nth(first, n)] IN
        [marketName |-> c.marketName, startDate |-> c.startDate,
         endDate |-> c.endDate, posts |-> PostsOfKey(promotions, PeriodKey(c))]]

\* C11: groupPromotionsByPeriod returns one entry per distinct (marketName,
\* startDate, endDate) of the list it is given, in first-occurrence order, each
\* with the posts of all the candidates of its key, in list order.
C11_MergeGroupsByPeriod ==
    \A n \in 1..Len(mergeLog) :
        mergeLog[n].value = MergedByPeriod(mergeLog[n].argument)

\* two candidates of one market and window were merged, with their two posts,
\* and a third of that market with another end date stayed apart
C11_Witness ==
    /\ Len(mergeLog) = 1
    /\ Len(mergeLog[1].argument) = 3
    /\ Len(mergeLog[1].value) = 2
    /\ \E e \in 1..2 :
          /\ Len(mergeLog[1].value[e].posts) = 2
          /\ mergeLog[1].value[e].marketName = mergeLog[1].value[3 - e].marketName
          /\ mergeLog[1].value[e].startDate = mergeLog[1].value[3 - e].startDate
          /\ mergeLog[1].value[e].endDate # mergeLog[1].value[3 - e].endDate

\* C12: the merger applied to a list it returned returns that list, and applied
\* again to the list it was first given it returns what it returned first.
C12_MergerIsIdempotent ==
    \A n \in 1..Len(mergeLog) :
        /\ mergeLog[n].given = "merged" => mergeLog[n].value = mergeLog[n].argument
        /\ mergeLog[n].given = "list" => mergeLog[n].value = mergeLog[1].value

\* C29: a call of groupPromotionsByPeriod leaves every candidate object of the
\* list it is given with the posts it had before the call.
C29_MergeLeavesInputUnchanged ==
    [][Len(mergeLog') > Len(mergeLog) =>
          /\ Len(heap') = Len(heap)
          /\ \A i \in 1..Len(heap) : heap'[i].posts = heap[i].posts]_vars

(***************************************************************************)
(* Properties of the extraction stage                                      *)
(***************************************************************************)
\* the markets that have a promotional post with text, in the order of their
\* first such post
MarketsToExtract ==
    LET posts == PromotionPostsOf(visionResults)
        first == {i \in 1..Len(posts) :
                    \A j \in 1..(i - 1) : posts[j].marketName # posts[i].marketName}
    IN  [n \in 1..Cardinality(first) |-> posts[Nth(first, n)].marketName]

\* the candidates the markets processed so far returned, in order
RECURSIVE LoggedPromotions(_)
LoggedPromotions(log) ==
    IF log = <<>> THEN <<>>
    ELSE (IF log[1].threw THEN <<>> ELSE log[1].promotions) \o LoggedPromotions(Tail(log))

\* C13: a response that is not JSON, or not a JSON array, once the code fences
\* are stripped gives its market no candidate and no exception; every market is
\* still processed and the candidates of the others are in the result.
C13_ParseFailureIsNotFatal ==
    /\ \A n \in 1..Len(marketLog) :
          marketLog[n].response \in UnparsableResponses =>
              ~marketLog[n].threw /\ marketLog[n].promotions = <<>>
    /\ extractPc = "done" =>
          /\ Len(marketLog) = Len(MarketsToExtract)
          /\ extractResult.promotions = MergedByPeriod(LoggedPromotions(marketLog))

\* the first market's response was not JSON and the second market's candidate
\* is in the result
C13_Witness ==
    /\ extractPc = "done"
    /\ Len(marketLog) = 2
    /\ marketLog[1].response \in UnparsableResponses
    /\ marketLog[2].promotions # <<>>
    /\ Len(extractResult.promotions) = 1
    /\ extractResult.promotions[1].marketName = marketLog[2].marketName
    /\ extractResult.success

\* the elements of the array of an array response
ElementsOf(response) ==
    LET c == CHOOSE c \in Range(response.text) : "json" \in DOMAIN c IN c.json.array

\* C14: an array element whose startDate or endDate is missing or not a
\* DD/MM/YYYY string still becomes a candidate, as do the other elements, and
\* the date takes today's value.
C14_MalformedDateFallsBackToToday ==
    \A n \in 1..Len(marketLog) :
        LET entry == marketLog[n] IN
        (/\ entry.response \in ArrayResponses
         /\ JsonNull \notin Range(ElementsOf(entry.response))) =>
            /\ ~entry.threw
            /\ Len(entry.promotions) = Len(ElementsOf(entry.response))
            /\ \A e \in 1..Len(entry.promotions) :
                  LET promoData == ElementsOf(entry.response)[e] IN
                  /\ promoData.startDate \notin WellFormedDates =>
                        entry.promotions[e].startDate = today
                  /\ promoData.endDate \notin WellFormedDates =>
                        entry.promotions[e].endDate = today

\* C16: generateContent is called once for each market that has a promotional
\* post with text, in order, and never again for a market, whatever its call or
\* response gave; with no such post it is not called and the stage returns
\* success with no promotion.
C16_OneCallPerMarket ==
    /\ Len(calls) <= Len(MarketsToExtract)
    /\ \A n \in 1..Len(calls) : calls[n] = MarketsToExtract[n]
    /\ extractPc = "done" =>
          /\ calls = MarketsToExtract
          /\ MarketsToExtract = <<>> =>
                extractResult.success /\ extractResult.promotions = <<>>

\* two markets: the call of the first failed, the response of the second was
\* not JSON, and the stage ended after these two calls
C16_Witness ==
    /\ extractPc = "done"
    /\ Len(calls) = 2
    /\ calls[1] # calls[2]
    /\ marketLog[1].response = CallFailed
    /\ marketLog[2].response \in UnparsableResponses


\* the candidate post is the re-association of one of the posts: its code, id
\* and combined text
ReassociatedFrom(candidatePost, posts) ==
    \E p \in 1..Len(posts) :
        /\ candidatePost.postCode = posts[p].postCode
        /\ candidatePost.postId = posts[p].postId
        /\ candidatePost.extractedText = posts[p].combinedText

\* C27: every candidate post the extractor emits for a market has the code, the
\* id and the combined text of one of the posts of that market's prompt; hence
\* every candidate post of the result, which the persister turns into a Post
\* row of the same code, has the code of a post the run classified.
C27_PostsAreReassociated ==
    /\ \A n \in 1..Len(marketLog) :
          \A c \in 1..Len(marketLog[n].promotions) :
              \A j \in 1..Len(marketLog[n].promotions[c].posts) :
                  ReassociatedFrom(marketLog[n].promotions[c].posts[j],
                                   marketLog[n].posts)
    /\ \A c \in 1..Len(extractResult.promotions) :
          \A j \in 1..Len(extractResult.promotions[c].posts) :
              \E v \in 1..Len(visionResults) :
                  extractResult.promotions[c].posts[j].postCode
                      = visionResults[v].postCode

\* the markets processed so far whose response could not be parsed
UnparsedMarkets ==
    {n \in 1..Len(marketLog) : marketLog[n].response \in UnparsableResponses}

\* C21: a market whose model response cannot be parsed has an entry in the
\* errors of the stage's result, and the other markets are still processed.
C21_ItemFailureIsRecorded ==
    extractPc = "done" =>
        /\ extractResult.errors >= Cardinality(UnparsedMarkets)
        /\ Len(marketLog) = Len(MarketsToExtract)

\* the markets processed so far for which the call to the model threw
UnreachableMarkets ==
    {n \in 1..Len(marketLog) : marketLog[n].response = CallFailed}

\* C22: when the call to the model throws for a market, the failure leaves the
\* stage and the run is failed; the call is not repeated.
C22_TransportFailureFailsRun ==
    (extractPc = "done" /\ UnreachableMarkets # {}) =>
        /\ GeminiProcessingFailed(extractResult)
        /\ \A n \in UnreachableMarkets : n = Len(marketLog)
(***************************************************************************)
(* Properties of the price conversion                                      *)
(***************************************************************************)
\* a decimal number in cents, when it has no more than two fraction digits
InCents(price) ==
    CASE price.num.scale = 0 -> price.num.mant * 100
      [] price.num.scale = 1 -> price.num.mant * 10
      [] price.num.scale = 2 -> price.num.mant

\* the products of the post of the list
PricedProducts == input[1].posts[1].products

\* C15: every product of the post is saved; the price of a product whose price
\* string is R$, thousands with points, a comma and the cents is that amount
\* (R$ 1.234,56 is 1234.56), and the price of a product whose price has no
\* number, or is not a string, is 0.
C15_PriceConversion ==
    runs >= 1 =>
        /\ Len(store.products) = Len(PricedProducts)
        /\ \A i \in 1..Len(PricedProducts) :
              /\ \A p \in PricesInCents :
                    PricedProducts[i].price = p.price =>
                        /\ store.products[i].price.num.scale <= 2
                        /\ InCents(store.products[i].price) = p.cents
              /\ PricedProducts[i].price \in UnparsablePrices =>
                    store.products[i].price = Zero

\* a product priced R$ 1.234,56 was saved at 1234.56 after a product without a
\* price, saved at 0
C15_Witness ==
    /\ runs = 1
    /\ Len(store.products) = 2
    /\ PricedProducts[1].price = Undefined
    /\ store.products[1].price = Zero
    /\ store.products[2].price = Decimal(123456, 2)
    /\ result.savedProducts = 2

(***************************************************************************)
(* Properties of runs that crash, interleave or meet failing inserts       *)
(***************************************************************************)
Crashed == \E e \in trace : e.op = "crash"

\* C17: when a run crashed between two store calls and the run made again on
\* the same list has returned, the store is the one an uninterrupted run on
\* that list leaves.
C17_RerunCompletesCrashedRun ==
    (procs["A"].pc = "done" /\ Crashed) =>
        store = SaveGeminiResults(EmptyStore, input).store

\* a run that neither crashed nor met a failing insert leaves the store
\* saveGeminiResults leaves
UninterruptedRunAgrees ==
    (procs["A"].pc = "done" /\ procs["B"].pc = "idle"
        /\ \A e \in trace : e.ok \/ e.op = "findPromotion") =>
        store = SaveGeminiResults(EmptyStore, input).store

BothReturned == \A p \in Runs : procs[p].pc = "done"

UniquePostCodes ==
    \A a, b \in 1..Len(store.posts) :
        store.posts[a].postCode = store.posts[b].postCode => a = b

UniquePromotionKeys ==
    \A a, b \in 1..Len(store.promotions) :
        PromotionWhere(store.promotions[a], store.promotions[b].marketId,
                       store.promotions[b].startDate, store.promotions[b].endDate)
            => a = b

\* C18: when two runs on the same list, interleaved store call by store call,
\* have both returned, no two Post rows have the same code and no two
\* Promotion rows the same market, start and end.
C18_ConcurrentRunsKeepKeysUnique ==
    BothReturned => UniquePostCodes /\ UniquePromotionKeys

\* the half of it that holds: the codes of the Post rows stay unique
ConcurrentRunsKeepCodesUnique == BothReturned => UniquePostCodes

\* the calls of one kind that succeeded
Succeeded(op) == {e \in trace : e.op = op /\ e.ok}

\* candidate k came to its post loop: its market has a row and its promotion
\* was found or created
PromotionResolved(k) ==
    /\ [op |-> "findPromotion", k |-> k, i |-> 0, j |-> 0, ok |-> TRUE] \in trace
    /\ [op |-> "createPromotion", k |-> k, i |-> 0, j |-> 0, ok |-> FALSE] \notin trace

\* C19: when a run in which inserts failed has returned, every candidate of
\* the list was processed, every post of every candidate whose promotion was
\* found or created was looked up, every product of every post inserted was
\* handed to the store, and each row inserted is in the store.
C19_FailureIsIsolated ==
    procs["A"].pc = "done" =>
        /\ \A k \in 1..Len(input) :
              /\ \E e \in trace : e.op = "findPromotion" /\ e.k = k
              /\ PromotionResolved(k) =>
                    \A i \in 1..Len(input[k].posts) :
                        /\ \E e \in trace : e.op = "findPost" /\ e.k = k /\ e.i = i
                        /\ (\E e \in Succeeded("insertPost") : e.k = k /\ e.i = i) =>
                              \A j \in 1..Len(input[k].posts[i].products) :
                                  \E e \in trace :
                                      e.op = "saveProduct" /\ e.k = k /\ e.i = i /\ e.j = j
        /\ Len(store.promotions) = Cardinality(Succeeded("createPromotion"))
        /\ Len(store.posts) = Cardinality(Succeeded("insertPost"))
        /\ Len(store.products) = Cardinality(Succeeded("saveProduct"))

\* the insert of the first post of the first candidate failed, and so did
\* the insert of a product of its second post; the second post and the
\* promotion of the second candidate were inserted all the same
C19_Witness ==
    /\ procs["A"].pc = "done"
    /\ Len(input) = 2
    /\ [op |-> "insertPost", k |-> 1, i |-> 1, j |-> 0, ok |-> FALSE] \in trace
    /\ [op |-> "insertPost", k |-> 1, i |-> 2, j |-> 0, ok |-> TRUE] \in trace
    /\ [op |-> "saveProduct", k |-> 1, i |-> 2, j |-> 1, ok |-> FALSE] \in trace
    /\ [op |-> "createPromotion", k |-> 2, i |-> 0, j |-> 0, ok |-> TRUE] \in trace
    /\ Len(store.promotions) = 2
    /\ Len(store.posts) = 1
    /\ store.products = <<>>

\* the rows a table held are the first rows it holds, unchanged
IsPrefix(rows, later) ==
    /\ Len(rows) <= Len(later)
    /\ SubSeq(later, 1, Len(rows)) = rows

RECURSIVE LatestSteps(_)
LatestSteps(log) ==
    IF log = <<>> THEN <<>>
    ELSE IF log[Len(log)].step = "execute" THEN <<>>
    ELSE Append(LatestSteps(SubSeq(log, 1, Len(log) - 1)), log[Len(log)])

\* the three steps of the try block, all completed
AllCompleted ==
    <<Step("validateConfig", TRUE), Step("initializeDatabase", TRUE),
      Step("executeMainLogic", TRUE)>>

\* C26: execute never throws; it returns 200 when validateConfig,
\* initializeDatabase and executeMainLogic all completed and 500 when one of
\* them threw, which is then the last of them to be taken; either way cleanup
\* ran before the return and closed the connection unless the closing failed,
\* and the status is the same whether or not it failed.
C26_OutcomeAndCleanup ==
    /\ handlerPc # "threw"
    /\ handlerPc = "returned" =>
          LET steps == LatestSteps(handlerLog)
              tried == SubSeq(steps, 1, Len(steps) - 1)
              last  == steps[Len(steps)]
          IN  /\ Len(steps) >= 2
              /\ last.step = "cleanup"
              /\ last.ok => ~isInitialized
              /\ \A s \in 1..Len(tried) : tried[s].step # "cleanup"
              /\ \A s \in 1..Len(tried) : ~tried[s].ok => s = Len(tried)
              /\ \A s \in 1..Len(tried) : tried[s] = Step(AllCompleted[s].step, tried[s].ok)
              /\ lambdaResponse.statusCode = (IF tried = AllCompleted THEN 200 ELSE 500)
              /\ tried # AllCompleted => ~tried[Len(tried)].ok

\* the connection could not be opened: 500 is returned, the main logic was not
\* run, and cleanup ran
C26_Witness ==
    /\ handlerPc = "returned"
    /\ lambdaResponse.statusCode = 500
    /\ LatestSteps(handlerLog)
          = <<Step("validateConfig", TRUE), Step("initializeDatabase", FALSE),
              Step("cleanup", TRUE)>>

(***************************************************************************)
(* Properties of the stages' results                                       *)
(***************************************************************************)
\* the posts of the batch that had an image whose OCR succeeded
PostsWithText ==
    {p \in 1..Len(imageLog) : \E i \in 1..Len(imageLog[p]) : imageLog[p][i]}

\* the markets whose posts were processed: the call to the model did not throw
\* and processMarketPosts returned
ProcessedMarkets ==
    {n \in 1..Len(marketLog) :
        marketLog[n].response # CallFailed /\ ~marketLog[n].threw}

RowsCreatedByRun ==
    (Len(store.promotions) - Len(storeBefore.promotions))
        + (Len(store.posts) - Len(storeBefore.posts))

\* C23: the result of the OCR stage has success exactly when a post had an
\* image whose OCR succeeded; that of the extraction stage exactly when a
\* market's posts were processed without a throw, or there was no promotional
\* post; that of the persistence stage exactly when the run created a Promotion
\* or a Post row; failures of other items do not matter.
C23_PartialSuccessIsSuccess ==
    /\ visionPc \in {"done", "handed"} =>
          (visionResult.success <=> PostsWithText # {})
    /\ extractPc = "done" =>
          (extractResult.success
              <=> (PromotionPostsOf(visionResults) = <<>> \/ ProcessedMarkets # {}))
    /\ runs >= 1 =>
          (result.success <=> RowsCreatedByRun > 0)

\* every stage succeeded although an item of it failed: a post without a
\* readable image, a market whose call to the model threw, a candidate that
\* could not be saved
C23_Witness ==
    /\ visionPc = "handed" /\ visionResult.success
    /\ PostsWithText # 1..Len(BatchPosts)
    /\ extractPc = "done" /\ extractResult.success
    /\ \E n \in 1..Len(marketLog) : marketLog[n].response = CallFailed
    /\ runs = 1 /\ result.success
    /\ result.errors > 0
====
